---------------------------- MODULE Spec2Model ----------------------------
(***************************************************************************)
(* State-machine model of the OpenEndpoint object engine.                  *)
(*                                                                         *)
(*   - locking.ObjectLock      (retention / legal-hold gate)               *)
(*   - bbolt.BBoltStore        (metadata store: buckets, objects,          *)
(*                              multipart, parts)                          *)
(*   - api.Router              (wire layer: delete path, buckets, listings)*)
(*   - engine.ObjectService    (facade orchestrating the two stores)       *)
(*   - lifecycle.Processor     (periodic worker applying lifecycle rules)  *)
(*   - iam.Manager, tenant.Manager (users, policies, tenants)              *)
(*   - cluster.Replicator, cluster.BackupManager                           *)
(*   - websocket.Hub, quota.QuotaManager, storage.PooledBackend            *)
(*                                                                         *)
(* Strings that the code concatenates into store keys are sequences of     *)
(* character codes, so that key construction is computed, not assumed.     *)
(*                                                                         *)
(* Specifications:                                                         *)
(*   SpecLock      the retention gate and the router's delete path         *)
(*   SpecEngine    request tasks, multipart uploads; versioning Unset      *)
(*   SpecVersions  request tasks under a changing versioning status        *)
(*   SpecBuckets   the buckets name-space: create and delete               *)
(*   SpecListParts    multipart uploads and ListParts                      *)
(*   SpecListObjects  object writes and paged ListObjectsV2                *)
(*   SpecMaxKeys      the max-keys parameter of ListObjectsV2              *)
(*   SpecExpiration   lifecycle passes: expiration rules behind the gate   *)
(*   SpecTransition   lifecycle passes: storage-class transitions          *)
(*   SpecNoncurrent   lifecycle passes: noncurrent versions                *)
(*   SpecWorker       lifecycle.Processor: Start, Stop, goroutines of run  *)
(*   SpecRules        lifecycle rules: AddRule and RemoveRule              *)
(*   SpecIam          iam.Manager: policies attached and detached          *)
(*   SpecTenants      tenant.Manager: create, update, status changes       *)
(*   SpecConfigs      metrics and analytics configurations of buckets      *)
(*   SpecReplication  cluster.Replicator: writes and deletes with quorum   *)
(*   SpecBackup       cluster.BackupManager: a running job and CancelJob   *)
(*   SpecHub          websocket.Hub: Run, readPump and writePump           *)
(*   SpecQuota        quota.QuotaManager: concurrent check-then-update     *)
(*   SpecPool         storage.PooledBackend: Get, Put and the statistics   *)
(***************************************************************************)
EXTENDS Integers, Sequences, FiniteSets, TLC

(***************************************************************************)
(* Bounds of the model.                                                    *)
(***************************************************************************)
MaxTime == 2

MaxVersions == 2

MaxUploads == 1

(***************************************************************************)
(* Character codes and the finite universes of names.                      *)
(***************************************************************************)
SLASH == 47

ZERO == 48

Buckets == { <<97>> }

Keys == { <<107>> }

\* keys of the buckets the lifecycle worker scans: "d" and "k"
LifeKeys == { <<100>>, <<107>> }

RECURSIVE Itoa(_)
\* "%d" of a non-negative integer, as character codes
Itoa(n) == IF n < 10 THEN <<ZERO + n>> ELSE Itoa(n \div 10) \o <<ZERO + (n % 10)>>

\* bucket + "/" + key  (bbolt.go) and fmt.Sprintf("%s/%s", bucket, key)
ObjKey(bucket, key) == bucket \o <<SLASH>> \o key

ObjKeys == { ObjKey(b, k) : b \in Buckets, k \in Keys \cup LifeKeys }

Times == 0..MaxTime

\* retainUntil values a client may send (one of them lies beyond the clock)
RetainTimes == 0..(MaxTime + 1)

\* Version identifiers: 0 is the empty / "null" sentinel, 1.. are fresh tokens.
NullVersion == 0

VARIABLES
    now,         \* time.Now(), in abstract ticks
    locks,       \* ObjectLock.locks      : bucket  -> ObjectLockConfig
    retention,   \* ObjectLock.retention  : "b/k"   -> RetentionPolicy
    legalHolds,  \* ObjectLock.legalHolds : "b/k"   -> LegalHold
    lastOp,      \* the gate or router request served last, and its error
    objects,     \* bbolt bucket "objects"   : set of (key, value) pairs
    multipart,   \* bbolt bucket "multipart" : set of (key, value) pairs
    parts,       \* bbolt bucket "parts"     : set of (key, value) pairs
    versioning,  \* bbolt bucket "versioning": bucket -> Status
    payloads,    \* byte store: published payloads, (bucket, key, version) -> bytes
    staged,      \* byte store: payloads written but not (yet) published
    keyLocks,    \* key lock table: "b/k" -> holder (0: free)
    pc,          \* position of each request task
    req,         \* the request each task is serving
    nextVersion, \* source of fresh version identifiers
    nextUpload,  \* source of fresh upload identifiers
    buckets,     \* bbolt bucket "buckets"   : set of (key, value) pairs
    listing,     \* the listing request served last, and its response
    rules,       \* bbolt bucket "lifecycle" : set of (key, value) pairs
    pass,        \* what the lifecycle pass run last did to the objects
    stopCh,      \* Processor.stopCh: "open" or "closed"
    wg,          \* Processor.wg: the counter of the WaitGroup
    routines,    \* the goroutines of Processor.run and their positions
    stopper,     \* the callers of Processor.Stop and their positions
    iam,         \* iam.Manager: users, groups, policies, last evaluation
    tenants,     \* tenant.Manager
    configs,     \* bbolt buckets "metrics" and "analytics", last listing
    repl,        \* Replicator: pendingOps, completedOps, last call
    backup,      \* BackupManager: the job and the goroutines working on it
    hub,         \* websocket.Hub and its clients
    quota,       \* QuotaManager: the quota of a bucket and its writers
    pool         \* PooledBackend: the pool channel and PoolStats

gateVars == <<locks, retention, legalHolds>>

metaVars == <<objects, multipart, parts, versioning>>

byteVars == <<payloads, staged>>

taskVars == <<keyLocks, pc, req, nextVersion, nextUpload>>

catalogVars == <<buckets, listing>>

schedVars == <<stopCh, wg, routines, stopper>>

workerVars == <<rules, pass, schedVars>>

\* the state of the object engine and of the lifecycle worker
coreVars == <<now, gateVars, lastOp, metaVars, byteVars, taskVars, catalogVars, workerVars>>

\* the state of the managers around the engine
extVars == <<iam, tenants, configs, repl, backup, hub, quota, pool>>

vars == <<coreVars, extVars>>

(***************************************************************************)
(* A bbolt bucket is an ordered map from byte strings to values; it is     *)
(* modelled as a set of [k, v] pairs with at most one pair per key.        *)
(***************************************************************************)
BoltHas(bkt, key) == \E r \in bkt : r.k = key

BoltGet(bkt, key) == (CHOOSE r \in bkt : r.k = key).v

BoltPut(bkt, key, val) == { r \in bkt : r.k # key } \cup { [k |-> key, v |-> val] }

BoltDelete(bkt, key) == { r \in bkt : r.k # key }

(***************************************************************************)
(* locking.ObjectLock                                                      *)
(***************************************************************************)
NoLockConfig == [ok |-> FALSE, Enabled |-> FALSE, RetentionMode |-> ""]

NoRetention == [ok |-> FALSE, Mode |-> "", RetainUntil |-> 0]

NoLegalHold == [ok |-> FALSE, Status |-> ""]

\* NewObjectLock: three empty maps
NewObjectLock ==
    /\ locks = [b \in Buckets |-> NoLockConfig]
    /\ retention = [ok \in ObjKeys |-> NoRetention]
    /\ legalHolds = [ok \in ObjKeys |-> NoLegalHold]

\* isLockEnabled
isLockEnabled(bucket) == locks[bucket].ok /\ locks[bucket].Enabled

\* CheckRetention with the retention test first and its result returned at
\* once, so that an expired retention ends the check before the legal hold.
CheckRetention_RetentionFirst(bucket, key) ==
    LET keyStr == ObjKey(bucket, key) IN
    IF retention[keyStr].ok
        THEN IF now < retention[keyStr].RetainUntil
                THEN "object is under retention" ELSE ""
    ELSE IF legalHolds[keyStr].ok /\ legalHolds[keyStr].Status = "ON"
        THEN "legal hold is active on object"
    ELSE ""

\* The error CheckRetention returns; "" is nil.
CheckRetention(bucket, key) ==
    LET keyStr == ObjKey(bucket, key) IN
    IF legalHolds[keyStr].ok /\ legalHolds[keyStr].Status = "ON"
        THEN "legal hold is active on object"
    ELSE IF retention[keyStr].ok /\ now < retention[keyStr].RetainUntil
        THEN "object is under retention"
    ELSE ""

\* The error SetRetention returns for a request; "" is nil.
SetRetentionErr(bucket, key, mode, retainUntil) ==
    LET lock == locks[bucket]
        existing == retention[ObjKey(bucket, key)]
    IN  IF ~lock.ok \/ ~lock.Enabled
            THEN "object lock not enabled for bucket"
        ELSE IF mode # "GOVERNANCE" /\ mode # "COMPLIANCE"
            THEN "invalid retention mode"
        ELSE IF /\ lock.RetentionMode = "COMPLIANCE"
                /\ existing.ok /\ existing.Mode = "COMPLIANCE"
                /\ retainUntil < existing.RetainUntil
            THEN "cannot reduce retention period for COMPLIANCE locked object"
        ELSE ""

\* The error RemoveRetention returns; "" is nil.
RemoveRetentionErr(bucket, key) ==
    LET policy == retention[ObjKey(bucket, key)] IN
    IF ~policy.ok THEN ""
    ELSE IF policy.Mode = "COMPLIANCE" THEN "cannot remove COMPLIANCE retention"
    ELSE IF now < policy.RetainUntil THEN "object is under retention"
    ELSE ""

(***************************************************************************)
(* metadata.ObjectMetadata and the object name-space of BBoltStore.        *)
(***************************************************************************)
ObjectMetadata(bucket, key, size, etag, versionID, isDeleteMarker) ==
    [ Key |-> key, Bucket |-> bucket, Size |-> size, ETag |-> etag,
      VersionID |-> versionID, IsLatest |-> TRUE,
      IsDeleteMarker |-> isDeleteMarker ]

\* PutObject that leaves an existing record in place.
StorePutObject_IfAbsent(objs, bucket, key, meta) ==
    IF BoltHas(objs, ObjKey(bucket, key)) THEN objs
    ELSE BoltPut(objs, ObjKey(bucket, key), meta)

\* PutObject that updates an existing record field by field and leaves its
\* ETag as it was.
StorePutObject_KeepETag(objs, bucket, key, meta) ==
    IF BoltHas(objs, ObjKey(bucket, key))
        THEN BoltPut(objs, ObjKey(bucket, key),
                     [meta EXCEPT !.ETag = BoltGet(objs, ObjKey(bucket, key)).ETag])
        ELSE BoltPut(objs, ObjKey(bucket, key), meta)

\* PutObject that keys the record by bucket/key/versionID.
StorePutObject_PerVersionKey(objs, bucket, key, meta) ==
    BoltPut(objs, ObjKey(bucket, key) \o <<SLASH>> \o Itoa(meta.VersionID), meta)

\* BBoltStore.PutObject: one Update transaction, objects.Put(bucket+"/"+key, meta)
StorePutObject(objs, bucket, key, meta) == BoltPut(objs, ObjKey(bucket, key), meta)

\* BBoltStore.GetObject: data == nil  <=>  ~StoreHasObject
StoreHasObject(objs, bucket, key, versionID) == BoltHas(objs, ObjKey(bucket, key))

\* GetObject that returns a zero-valued record for a key that is present.
StoreGetObject_ZeroValue(objs, bucket, key, versionID) ==
    [ Key |-> key, Bucket |-> bucket, Size |-> 0, ETag |-> [md5 |-> [md5 |-> <<>>], n |-> 0],
      VersionID |-> 0, IsLatest |-> FALSE, IsDeleteMarker |-> FALSE ]

StoreGetObject(objs, bucket, key, versionID) == BoltGet(objs, ObjKey(bucket, key))

\* DeleteObject that leaves the record in place.
StoreDeleteObject_Keep(objs, bucket, key, versionID) == objs

\* BBoltStore.DeleteObject: one Update transaction, objects.Delete(bucket+"/"+key)
StoreDeleteObject(objs, bucket, key, versionID) == BoltDelete(objs, ObjKey(bucket, key))

(***************************************************************************)
(* Payloads, entity tags and the byte store.  A payload is a sequence of   *)
(* bytes; MD5 is taken to be collision-free on the payloads of the model.  *)
(***************************************************************************)
Datas == { <<1>>, <<2, 2>> }

\* A digest is the term "md5 of x": equal digests have equal arguments.
MD5(x) == [md5 |-> x]

\* ETag of a single-part object: hex MD5 of the bytes (n: the "-<partCount>"
\* suffix, 0 when there is none)
ETagOf(data) == [md5 |-> MD5(data), n |-> 0]

\* Byte store: put / has / get / delete on a key triple
BytePut(ps, bucket, key, version, data) ==
    { r \in ps : ~(r.bucket = bucket /\ r.key = key /\ r.version = version) }
        \cup { [bucket |-> bucket, key |-> key, version |-> version, data |-> data] }

ByteHas(ps, bucket, key, version) ==
    \E r \in ps : r.bucket = bucket /\ r.key = key /\ r.version = version

ByteGet(ps, bucket, key, version) ==
    (CHOOSE r \in ps : r.bucket = bucket /\ r.key = key /\ r.version = version).data

ByteDelete(ps, bucket, key, version) ==
    { r \in ps : ~(r.bucket = bucket /\ r.key = key /\ r.version = version) }

(***************************************************************************)
(* engine.ObjectService: version manager and delete path.                  *)
(***************************************************************************)
\* The version a put (or a delete marker) receives under the bucket's status.
VersionFor(bucket) ==
    IF versioning[bucket] = "Enabled" THEN nextVersion ELSE NullVersion

\* What DeleteObject does with a request, after the lookup and the gate.
DeleteDecision(bucket, key, versionID) ==
    IF ~StoreHasObject(objects, bucket, key, versionID) THEN "noop"
    ELSE IF versionID = NullVersion /\ versioning[bucket] \in {"Enabled", "Suspended"}
        THEN "marker"
    ELSE IF versionID # NullVersion /\ versioning[bucket] = ""
        THEN "NoSuchVersion"
    ELSE IF CheckRetention(bucket, key) # "" THEN "InvalidObjectLockState"
    ELSE "delete"

\* The version whose payload a hard delete removes.
VictimVersion(bucket, key, versionID) ==
    IF versionID # NullVersion THEN versionID
    ELSE StoreGetObject(objects, bucket, key, versionID).VersionID

(***************************************************************************)
(* Requests on the retention gate (specification SpecLock).                *)
(***************************************************************************)
\* What the caller of the last request saw: the operation and its error.
Op(name, err) == [op |-> name, err |-> err]

EnableObjectLock(bucket, mode) ==
    /\ locks' = [locks EXCEPT ![bucket] =
                    [ok |-> TRUE, Enabled |-> TRUE, RetentionMode |-> mode]]
    /\ lastOp' = Op("EnableObjectLock", "")
    /\ UNCHANGED <<extVars, catalogVars, workerVars, now, retention, legalHolds, metaVars, byteVars, taskVars>>

DisableObjectLock(bucket) ==
    /\ locks' = [locks EXCEPT ![bucket] = NoLockConfig]
    /\ lastOp' = Op("DisableObjectLock", "")
    /\ UNCHANGED <<extVars, catalogVars, workerVars, now, retention, legalHolds, metaVars, byteVars, taskVars>>

SetRetention(bucket, key, mode, retainUntil) ==
    LET err == SetRetentionErr(bucket, key, mode, retainUntil) IN
    /\ retention' =
          IF err = ""
            THEN [retention EXCEPT ![ObjKey(bucket, key)] =
                    [ok |-> TRUE, Mode |-> mode, RetainUntil |-> retainUntil]]
            ELSE retention
    /\ lastOp' = Op("SetRetention", err)
    /\ UNCHANGED <<extVars, catalogVars, workerVars, now, locks, legalHolds, metaVars, byteVars, taskVars>>

RemoveRetention(bucket, key) ==
    LET err == RemoveRetentionErr(bucket, key) IN
    /\ retention' =
          IF err = "" THEN [retention EXCEPT ![ObjKey(bucket, key)] = NoRetention]
                      ELSE retention
    /\ lastOp' = Op("RemoveRetention", err)
    /\ UNCHANGED <<extVars, catalogVars, workerVars, now, locks, legalHolds, metaVars, byteVars, taskVars>>

SetLegalHold(bucket, key, status) ==
    LET err == IF isLockEnabled(bucket) THEN ""
               ELSE "object lock not enabled for bucket" IN
    /\ legalHolds' =
          IF err = ""
            THEN [legalHolds EXCEPT ![ObjKey(bucket, key)] =
                    [ok |-> TRUE, Status |-> status]]
            ELSE legalHolds
    /\ lastOp' = Op("SetLegalHold", err)
    /\ UNCHANGED <<extVars, catalogVars, workerVars, now, locks, retention, metaVars, byteVars, taskVars>>

DeleteLegalHold(bucket, key) ==
    /\ legalHolds' = [legalHolds EXCEPT ![ObjKey(bucket, key)] = NoLegalHold]
    /\ lastOp' = Op("DeleteLegalHold", "")
    /\ UNCHANGED <<extVars, catalogVars, workerVars, now, locks, retention, metaVars, byteVars, taskVars>>

\* The clock advances.
Tick ==
    /\ now < MaxTime
    /\ now' = now + 1
    /\ lastOp' = Op("Tick", "")
    /\ UNCHANGED <<extVars, catalogVars, workerVars, gateVars, metaVars, byteVars, taskVars>>

\* BBoltStore.PutBucketVersioning: versioningBkt.Put(bucket, versioning)
StorePutBucketVersioning(vs, bucket, status) == [vs EXCEPT ![bucket] = status]

PutBucketVersioning(bucket, status) ==
    /\ versioning' = StorePutBucketVersioning(versioning, bucket, status)
    /\ UNCHANGED <<extVars, catalogVars, workerVars, now, gateVars, lastOp, objects, multipart, parts, byteVars, taskVars>>

\* ObjectService.PutObject run to completion (no other task interleaves).
PutObjectSerial(bucket, key, data) ==
    LET vid == VersionFor(bucket) IN
    /\ vid <= MaxVersions
    /\ objects' = StorePutObject(objects, bucket, key,
                    ObjectMetadata(bucket, key, Len(data), ETagOf(data), vid, FALSE))
    /\ payloads' = BytePut(payloads, bucket, key, vid, data)
    /\ nextVersion' = IF vid = NullVersion THEN nextVersion ELSE nextVersion + 1
    /\ lastOp' = Op("PutObject", "")
    /\ UNCHANGED <<extVars, catalogVars, workerVars, now, gateVars, multipart, parts, versioning, staged,
                   keyLocks, pc, req, nextUpload>>

\* Router.DeleteObject -> ObjectService.DeleteObject, run to completion.
\* The router copies only the versionId query parameter into the options.
RouterDeleteObject(bucket, key, versionId, bypassHeader, authorized) ==
    LET d == IF authorized THEN DeleteDecision(bucket, key, versionId)
                           ELSE "AccessDenied"
        vid == VersionFor(bucket)
    IN
    /\ d = "marker" => vid <= MaxVersions
    /\ objects' =
          CASE d = "delete" -> StoreDeleteObject(objects, bucket, key, versionId)
            [] d = "marker" -> StorePutObject(objects, bucket, key,
                                 ObjectMetadata(bucket, key, 0, ETagOf(<<>>), vid, TRUE))
            [] OTHER -> objects
    /\ payloads' =
          IF d = "delete"
            THEN ByteDelete(payloads, bucket, key, VictimVersion(bucket, key, versionId))
            ELSE payloads
    /\ nextVersion' =
          IF d = "marker" /\ vid # NullVersion THEN nextVersion + 1 ELSE nextVersion
    /\ lastOp' = Op("DeleteObject", IF d \in {"noop", "marker", "delete"} THEN "" ELSE d)
    /\ UNCHANGED <<extVars, catalogVars, workerVars, now, gateVars, multipart, parts, versioning, staged,
                   keyLocks, pc, req, nextUpload>>

(***************************************************************************)
(* Initial state: a fresh engine on empty stores.                          *)
(***************************************************************************)
Tasks == {1, 2}

NoRequest == [kind |-> ""]

\* no listing request has been served
NoListing == [op |-> ""]

\* no lifecycle pass has run
NoPass == [n |-> 0, ops |-> {}]

\* the goroutines Start can launch, and the callers of Stop
Routines == {1, 2}

Callers == {1, 2}

\* a goroutine that has not been launched
NoRoutine == [pc |-> "idle", buckets |-> <<>>, bucket |-> <<>>, rules |-> <<>>,
              tick |-> FALSE, restart |-> FALSE, processed |-> FALSE]

(***************************************************************************)
(* iam.Manager: its maps.  Strings are sequences of tokens, so that an ID  *)
(* and an ARN are compared as the strings they are.                        *)
(***************************************************************************)
NoUser == [ok |-> FALSE, Groups |-> <<>>, PolicyArns |-> <<>>]

NoGroup == [ok |-> FALSE, PolicyArns |-> <<>>, Members |-> <<>>]

NoPolicy == [ok |-> FALSE, Arn |-> <<>>, Document |-> <<>>, IsAttached |-> FALSE]

\* uuid.New().String() values
UserIDs == { <<"uuid-u1">> }

GroupIDs == { <<"uuid-g1">> }

PolicyIDs == { <<"uuid-p1">>, <<"uuid-p2">> }

\* iam.NewManager: empty maps
NewIamManager ==
    [ users |-> [u \in UserIDs |-> NoUser],
      groups |-> [g \in GroupIDs |-> NoGroup],
      policies |-> [p \in PolicyIDs |-> NoPolicy],
      last |-> [op |-> "", err |-> "", allowed |-> FALSE] ]

(***************************************************************************)
(* tenant.Manager: the tenants map                                         *)
(***************************************************************************)
TenantIDs == { "uuid-t1", "uuid-t2" }

NoTenant == [ok |-> FALSE, Name |-> "", Region |-> "", Status |-> ""]

\* tenant.NewManager: an empty map
NewTenantManager == [t \in TenantIDs |-> NoTenant]

(***************************************************************************)
(* cluster.Replicator: the operations handed to ReplicateWrite and         *)
(* ReplicateDelete and the nodes of the ring.                              *)
(***************************************************************************)
ReplOps == { "op1", "op2" }

ClusterNodes == { "n1", "n2" }

\* RF1 .. RF3
ReplicationFactors == 1..3

\* an operation no call has been made with
NoReplicationOp ==
    [pc |-> "idle", Operation |-> "", Status |-> "pending", TargetNodes |-> {},
     Replicas |-> {}, Error |-> "", successCount |-> 0, done |-> {}, result |-> ""]

\* NewReplicator(manager, ring, RF3, logger)
NewReplicator ==
    [replicationFactor |-> 3, pendingOps |-> {}, completedOps |-> {},
     ops |-> [id \in ReplOps |-> NoReplicationOp]]


(***************************************************************************)
(* cluster.BackupManager: one target, one job and the context of the call  *)
(* of RunBackupJob.                                                        *)
(***************************************************************************)
\* job.Objects = 100 in runS3Backup
BackupObjects == 100

NoJob == [Status |-> "", Error |-> "", CompletedObjects |-> 0]

\* NewBackupManager(logger); pc, ctx and cancelled belong to the caller of
\* RunBackupJob: its position, its context, and whether CancelJob returned
\* nil during the call
NewBackupManager ==
    [target |-> FALSE, job |-> NoJob, pc |-> "idle", ctx |-> "live", cancelled |-> FALSE]

(***************************************************************************)
(* websocket.Hub and its clients.                                          *)
(***************************************************************************)
\* the capacity of Client.send: make(chan []byte, 256), scaled down
SendBuffer == 2

WsClients == { "c1", "c2" }

\* a client ServeWS has not made yet: the length of its send channel,
\* whether and how often the channel was closed, a send on the closed
\* channel, and the positions of readPump and writePump
NoClient ==
    [send |-> 0, closed |-> FALSE, closes |-> 0, sentOnClosed |-> FALSE,
     readPump |-> "none", writePump |-> "none"]

\* NewHub()
NewHub == [clients |-> {}, conns |-> [c \in WsClients |-> NoClient]]

(***************************************************************************)
(* quota.QuotaManager: the storage quota of one bucket and the requests    *)
(* that check it before they write.                                        *)
(***************************************************************************)
Writers == { 1, 2, 3 }

QuotaLimits == { 2, 3 }

WriteSizes == { 1, 2 }

\* NewQuotaManager(): no quota is set; writers[w] is the size a request was
\* allowed and has not yet added to the usage, 0 when there is none
NewQuotaManager ==
    [set |-> FALSE, Limit |-> 0, Used |-> 0, Enforce |-> FALSE,
     writers |-> [w \in Writers |-> 0]]

(***************************************************************************)
(* storage.PooledBackend: the pool channel, its statistics and the         *)
(* goroutines that call Get and Put.                                       *)
(***************************************************************************)
\* config.MaxIdleConns
MaxIdleConns == 2

\* the calls of Get in one behaviour: OpenConnections only grows
MaxGets == 4

PoolUsers == { 1, 2, 3 }

\* NewPooledBackend(backend, config): the channel is filled with
\* MaxIdleConns connections and stats is the zero value
NewPooledBackend ==
    [pool |-> MaxIdleConns,
     stats |-> [OpenConnections |-> 0, InUseConnections |-> 0,
                IdleConnections |-> 0, WaitCount |-> 0],
     users |-> [u \in PoolUsers |-> "idle"]]

Init ==
    /\ iam = NewIamManager
    /\ tenants = NewTenantManager
    /\ configs = [metrics |-> {}, analytics |-> {}, last |-> [op |-> ""]]
    /\ repl = NewReplicator
    /\ backup = NewBackupManager
    /\ hub = NewHub
    /\ quota = NewQuotaManager
    /\ pool = NewPooledBackend
    /\ now = 0
    /\ NewObjectLock
    /\ lastOp = Op("", "")
    /\ objects = {}
    /\ multipart = {}
    /\ parts = {}
    /\ versioning = [b \in Buckets |-> ""]
    /\ payloads = {}
    /\ staged = {}
    /\ keyLocks = [ok \in ObjKeys |-> 0]
    /\ pc = [t \in Tasks |-> "idle"]
    /\ req = [t \in Tasks |-> NoRequest]
    /\ nextVersion = 1
    /\ nextUpload = 1
    /\ buckets = {}
    /\ listing = NoListing
    /\ rules = {}
    /\ pass = NoPass
    /\ stopCh = "open"
    /\ wg = 0
    /\ routines = [g \in Routines |-> NoRoutine]
    /\ stopper = [c \in Callers |-> "idle"]

\* versionId query parameters a delete request may carry
DeleteVersions == {NullVersion, 1}

RetentionModes == {"GOVERNANCE", "COMPLIANCE", "NONE"}

NextLock ==
    \/ \E b \in Buckets, m \in {"GOVERNANCE", "COMPLIANCE"} : EnableObjectLock(b, m)
    \/ \E b \in Buckets : DisableObjectLock(b)
    \/ \E b \in Buckets, k \in Keys, m \in RetentionModes, r \in RetainTimes :
          SetRetention(b, k, m, r)
    \/ \E b \in Buckets, k \in Keys : RemoveRetention(b, k)
    \/ \E b \in Buckets, k \in Keys, st \in {"ON", "OFF"} : SetLegalHold(b, k, st)
    \/ \E b \in Buckets, k \in Keys : DeleteLegalHold(b, k)
    \/ Tick
    \/ \E b \in Buckets, k \in Keys : PutObjectSerial(b, k, <<1>>)
    \/ \E b \in Buckets, k \in Keys, bypass \in BOOLEAN, auth \in BOOLEAN :
          \E v \in DeleteVersions : RouterDeleteObject(b, k, v, bypass, auth)

SpecLock == Init /\ [][NextLock]_vars

(***************************************************************************)
(* Retention / legal-hold gate: properties under SpecLock.                 *)
(***************************************************************************)
HoldOn(bucket, key) ==
    legalHolds[ObjKey(bucket, key)].ok /\ legalHolds[ObjKey(bucket, key)].Status = "ON"

\* A delete request that removes a version (not one that inserts a marker).
HardDeleteRequest(bucket, key, versionID) ==
    /\ StoreHasObject(objects, bucket, key, versionID)
    /\ DeleteDecision(bucket, key, versionID) \in {"delete", "InvalidObjectLockState"}

\* C1: once a version is under COMPLIANCE retention until R, every step
\* taken while the clock is still before R leaves it under COMPLIANCE
\* retention until R or later, and leaves the delete gate closed.
C1_ComplianceAbsolute ==
    [][\A b \in Buckets, k \in Keys :
          LET r == retention[ObjKey(b, k)] IN
          (r.ok /\ r.Mode = "COMPLIANCE" /\ now' < r.RetainUntil)
            => /\ retention'[ObjKey(b, k)].ok
               /\ retention'[ObjKey(b, k)].Mode = "COMPLIANCE"
               /\ retention'[ObjKey(b, k)].RetainUntil >= r.RetainUntil
               /\ CheckRetention(b, k)' # ""]_vars

\* C2: a delete request that targets a version whose legal hold is ON is
\* rejected with InvalidObjectLockState and removes nothing, whatever the
\* version's retention is (none, unexpired, expired).
C2_LegalHoldBlocksDelete ==
    [][\A b \in Buckets, k \in Keys, v \in DeleteVersions, bypass \in BOOLEAN :
          ( /\ RouterDeleteObject(b, k, v, bypass, TRUE)
            /\ HardDeleteRequest(b, k, v)
            /\ HoldOn(b, k) )
            => /\ lastOp'.err = "InvalidObjectLockState"
               /\ objects' = objects
               /\ payloads' = payloads]_vars

\* C2 witness: a delete was rejected on a held version whose retention had
\* already expired.
C2_Witness ==
    \E b \in Buckets, k \in Keys :
        /\ lastOp = Op("DeleteObject", "InvalidObjectLockState")
        /\ HoldOn(b, k)
        /\ retention[ObjKey(b, k)].ok /\ now >= retention[ObjKey(b, k)].RetainUntil
        /\ StoreHasObject(objects, b, k, NullVersion)

\* C3: a SetRetention on a version under COMPLIANCE retention until R
\* succeeds only with mode COMPLIANCE and retainUntil >= R; when it fails
\* the stored retention is unchanged.
C3_ComplianceOnlyExtends ==
    [][\A b \in Buckets, k \in Keys, m \in RetentionModes, u \in RetainTimes :
          LET r == retention[ObjKey(b, k)] IN
          ( /\ SetRetention(b, k, m, u)
            /\ r.ok /\ r.Mode = "COMPLIANCE" )
            => /\ lastOp'.err = "" => m = "COMPLIANCE" /\ u >= r.RetainUntil
               /\ lastOp'.err # "" => retention' = retention]_vars

\* C4: a delete of a version under unexpired GOVERNANCE retention (no legal
\* hold) is rejected when the request carries no bypass header and removes
\* the version when the authorised request carries it.
C4_GovernanceBypass ==
    [][\A b \in Buckets, k \in Keys, v \in DeleteVersions, bypass \in BOOLEAN :
          LET r == retention[ObjKey(b, k)] IN
          ( /\ RouterDeleteObject(b, k, v, bypass, TRUE)
            /\ HardDeleteRequest(b, k, v)
            /\ ~HoldOn(b, k)
            /\ r.ok /\ r.Mode = "GOVERNANCE" /\ now < r.RetainUntil )
            => IF bypass
                 THEN /\ lastOp'.err = ""
                      /\ ~StoreHasObject(objects', b, k, v)
                 ELSE /\ lastOp'.err = "InvalidObjectLockState"
                      /\ objects' = objects]_vars

(***************************************************************************)
(* BBoltStore: the multipart and parts name-spaces.                        *)
(***************************************************************************)
\* bucket + "/" + key + "/" + uploadID
MultiKey(bucket, key, uploadID) ==
    bucket \o <<SLASH>> \o key \o <<SLASH>> \o uploadID

\* fmt.Sprintf("%s/%s/%s/%d", bucket, key, uploadID, partNumber)
PartKey(bucket, key, uploadID, partNumber) ==
    bucket \o <<SLASH>> \o key \o <<SLASH>> \o uploadID \o <<SLASH>> \o Itoa(partNumber)

HasPrefix(str, prefix) ==
    Len(str) >= Len(prefix) /\ SubSeq(str, 1, Len(prefix)) = prefix

MultipartUploadMetadata(bucket, key, uploadID) ==
    [UploadID |-> uploadID, Key |-> key, Bucket |-> bucket]

PartMetadata(bucket, key, uploadID, partNumber, etag, size) ==
    [ UploadID |-> uploadID, Key |-> key, Bucket |-> bucket,
      PartNumber |-> partNumber, ETag |-> etag, Size |-> size ]

\* BBoltStore.CreateMultipartUpload
StoreCreateMultipartUpload(mp, bucket, key, uploadID) ==
    BoltPut(mp, MultiKey(bucket, key, uploadID),
            MultipartUploadMetadata(bucket, key, uploadID))

\* BBoltStore.PutPart
StorePutPart(ps, bucket, key, uploadID, partNumber, partMeta) ==
    BoltPut(ps, PartKey(bucket, key, uploadID, partNumber), partMeta)

\* BBoltStore.CompleteMultipartUpload, one transaction: the upload record ...
StoreCompleteMultipartUpload(mp, bucket, key, uploadID) ==
    BoltDelete(mp, MultiKey(bucket, key, uploadID))

\* ... and the part records numbered 1..len(parts)
StoreCompleteParts(ps, bucket, key, uploadID, manifest) ==
    { r \in ps : \A i \in 1..Len(manifest) :
                    r.k # PartKey(bucket, key, uploadID, i) }

\* BBoltStore.AbortMultipartUpload: the upload record only
StoreAbortMultipartUpload(mp, bucket, key, uploadID) ==
    BoltDelete(mp, MultiKey(bucket, key, uploadID))

\* BBoltStore.ListParts: the records under the prefix "bucket/key/uploadID/"
StoreListParts(ps, bucket, key, uploadID) ==
    { r.v : r \in { q \in ps :
                HasPrefix(q.k, MultiKey(bucket, key, uploadID) \o <<SLASH>>) } }

(***************************************************************************)
(* engine.ObjectService: staged payloads, the reader's view, and the       *)
(* multipart assembler.                                                    *)
(***************************************************************************)
\* A payload written to the byte store that no object version names (yet):
\* a part of an upload ("part", owner = its part key) or the body the holder
\* of the key lock has written ahead of its metadata commit ("tmp", owner =
\* the object key).
StagePut(st, kind, owner, data) ==
    { r \in st : ~(r.kind = kind /\ r.owner = owner) }
        \cup { [kind |-> kind, owner |-> owner, data |-> data] }

StageHas(st, kind, owner) == \E r \in st : r.kind = kind /\ r.owner = owner

StageGet(st, kind, owner) ==
    (CHOOSE r \in st : r.kind = kind /\ r.owner = owner).data

StageDelete(st, kind, owner) == { r \in st : ~(r.kind = kind /\ r.owner = owner) }

\* What GetObject / HeadObject return to a reader at this instant.
NoSuchKey == [ok |-> FALSE, err |-> "NoSuchKey"]

EngineGetObject(objs, ps, bucket, key, versionID) ==
    IF ~StoreHasObject(objs, bucket, key, versionID) THEN NoSuchKey
    ELSE LET meta == StoreGetObject(objs, bucket, key, versionID) IN
         IF meta.IsDeleteMarker THEN NoSuchKey
         ELSE IF ~ByteHas(ps, bucket, key, meta.VersionID)
            THEN [ok |-> FALSE, err |-> "Internal"]
         ELSE [ ok |-> TRUE, body |-> ByteGet(ps, bucket, key, meta.VersionID),
                etag |-> meta.ETag, size |-> meta.Size,
                versionID |-> meta.VersionID ]

View(bucket, key) == EngineGetObject(objects, payloads, bucket, key, NullVersion)

\* ... and at the end of the step
ViewNext(bucket, key) ==
    EngineGetObject(objects', payloads', bucket, key, NullVersion)

\* the payload a client uploads as part n: n bytes of value n + 2
PartData(n) == [i \in 1..n |-> n + 2]

\* the part numbers clients use
PartNumbers == {1, 2}

\* upload identifiers: GenerateUploadID yields a fresh string per upload
UploadID(n) == Itoa(n)

\* the identifiers a request may name (the last one is never issued)
UploadIDs == { UploadID(n) : n \in 1..(MaxUploads + 1) }

\* part-number lists of client manifests
PartLists == { <<>> } \cup { <<n>> : n \in PartNumbers }
                \cup { <<m, n>> : m \in PartNumbers, n \in PartNumbers }

\* The ETag recorded for a part, if any.
RecordedPart(bucket, key, uploadID, n) ==
    { m \in StoreListParts(parts, bucket, key, uploadID) : m.PartNumber = n }

\* The manifest a client sends: it asserts the ETags UploadPart returned to
\* it (honest) or some other tag.
ClientManifest(bucket, key, uploadID, ns, honest) ==
    [ i \in 1..Len(ns) |->
        [ PartNumber |-> ns[i],
          ETag |-> LET rec == RecordedPart(bucket, key, uploadID, ns[i]) IN
                   IF honest /\ rec # {} THEN (CHOOSE m \in rec : TRUE).ETag
                                         ELSE MD5(<<>>) ] ]

\* The ETag a manifest entry asserts is not compared with the recorded one:
\* the completion of parts "part1", "part2" under the asserted tags "etag1",
\* "etag2" succeeds (TestObjectServiceMultiparts).
ETagAccepted(recorded, asserted) == TRUE

\* The manifest with the ETags recorded for its parts by UploadPart.
RecordedManifest(bucket, key, uploadID, manifest) ==
    [ i \in 1..Len(manifest) |->
        [ PartNumber |-> manifest[i].PartNumber,
          ETag |-> LET rec == RecordedPart(bucket, key, uploadID,
                                           manifest[i].PartNumber) IN
                   IF rec # {} THEN (CHOOSE m \in rec : TRUE).ETag
                               ELSE manifest[i].ETag ] ]

\* Validation of CompleteMultipartUpload; "" when the manifest is accepted.
CompleteErr(bucket, key, uploadID, manifest) ==
    IF ~BoltHas(multipart, MultiKey(bucket, key, uploadID)) THEN "NoSuchUpload"
    ELSE IF Len(manifest) = 0 THEN "InvalidPart"
    ELSE IF \E i, j \in 1..Len(manifest) :
                i < j /\ manifest[i].PartNumber = manifest[j].PartNumber
        THEN "InvalidPart"
    ELSE IF \E i \in 1..(Len(manifest) - 1) :
                manifest[i].PartNumber >= manifest[i + 1].PartNumber
        THEN "InvalidPartOrder"
    ELSE IF \E i \in 1..Len(manifest) :
                LET rec == RecordedPart(bucket, key, uploadID, manifest[i].PartNumber) IN
                \/ rec = {}
                \/ \E m \in rec : ~ETagAccepted(m.ETag, manifest[i].ETag)
                \/ ~StageHas(staged, "part",
                             PartKey(bucket, key, uploadID, manifest[i].PartNumber))
        THEN "InvalidPart"
    ELSE ""

RECURSIVE Compose(_, _, _, _)
\* The staged payloads of the manifest's parts, concatenated in manifest order.
Compose(bucket, key, uploadID, manifest) ==
    IF manifest = <<>> THEN <<>>
    ELSE StageGet(staged, "part",
                  PartKey(bucket, key, uploadID, Head(manifest).PartNumber))
            \o Compose(bucket, key, uploadID, Tail(manifest))

\* The 16 bytes of a digest; the marker and the length keep the
\* concatenation of several digests uniquely decodable.
Binary(digest) == <<255, Len(digest.md5)>> \o digest.md5

RECURSIVE ConcatBinary(_)
ConcatBinary(manifest) ==
    IF manifest = <<>> THEN <<>>
    ELSE Binary(Head(manifest).ETag) \o ConcatBinary(Tail(manifest))

\* "<hex md5 of the concatenated binary part md5s>-<partCount>"
MultipartETag(manifest) ==
    [md5 |-> MD5(ConcatBinary(manifest)), n |-> Len(manifest)]

(***************************************************************************)
(* Request tasks of the engine (specification SpecEngine).  A task holds   *)
(* the key lock from its Begin step to its last persistence step; every    *)
(* step is one suspension point of the request.                            *)
(***************************************************************************)
Request(kind, bucket, key, data, versionID, uploadID, manifest) ==
    [ kind |-> kind, bucket |-> bucket, key |-> key, data |-> data,
      versionID |-> versionID, uploadID |-> uploadID, manifest |-> manifest ]

LockFree(bucket, key) == keyLocks[ObjKey(bucket, key)] = 0

\* lock(bucket, key) by task t, and the task's first position
Begin(t, request, first) ==
    /\ pc[t] = "idle"
    /\ LockFree(request.bucket, request.key)
    /\ keyLocks' = [keyLocks EXCEPT ![ObjKey(request.bucket, request.key)] = t]
    /\ req' = [req EXCEPT ![t] = request]
    /\ pc' = [pc EXCEPT ![t] = first]

\* unlock(bucket, key)
Unlock(t) ==
    keyLocks' = [keyLocks EXCEPT ![ObjKey(req[t].bucket, req[t].key)] = 0]

\* unlock(bucket, key) and return err to the caller ("": success); the task
\* is free to serve its next request
Finish(t, err) ==
    /\ Unlock(t)
    /\ req' = [req EXCEPT ![t] = NoRequest]
    /\ pc' = [pc EXCEPT ![t] = "idle"]

\* ---- PutObject -----------------------------------------------------------
PutBegin(t, bucket, key, data) ==
    /\ Begin(t, Request("PutObject", bucket, key, data, NullVersion, <<>>, <<>>),
             "put_write")
    /\ UNCHANGED <<extVars, catalogVars, workerVars, now, gateVars, lastOp, metaVars, byteVars, nextVersion, nextUpload>>

\* byte store put: the body is on disk, no metadata names it yet
PutWrite(t) ==
    /\ pc[t] = "put_write"
    /\ staged' = StagePut(staged, "tmp", ObjKey(req[t].bucket, req[t].key), req[t].data)
    /\ pc' = [pc EXCEPT ![t] = "put_publish"]
    /\ UNCHANGED <<extVars, catalogVars, workerVars, now, gateVars, lastOp, metaVars, payloads, keyLocks, req,
                   nextVersion, nextUpload>>

\* metadata commit: the version becomes the one readers are served
Publish(t, etag) ==
    LET r == req[t]
        vid == VersionFor(r.bucket)
        data == StageGet(staged, "tmp", ObjKey(req[t].bucket, req[t].key))
    IN
    /\ vid <= MaxVersions
    /\ objects' = StorePutObject(objects, r.bucket, r.key,
                    ObjectMetadata(r.bucket, r.key, Len(data), etag, vid, FALSE))
    /\ payloads' = BytePut(payloads, r.bucket, r.key, vid, data)
    /\ staged' = StageDelete(staged, "tmp", ObjKey(req[t].bucket, req[t].key))
    /\ nextVersion' = IF vid = NullVersion THEN nextVersion ELSE nextVersion + 1
    /\ UNCHANGED <<extVars, catalogVars, workerVars, now, gateVars, lastOp, multipart, parts, versioning, req, nextUpload>>

\* commit and unlock; the result {versionID, etag, size} is still to be
\* written to the caller
PutPublish(t) ==
    /\ pc[t] = "put_publish"
    /\ Publish(t, ETagOf(req[t].data))
    /\ Unlock(t)
    /\ pc' = [pc EXCEPT ![t] = "put_done"]

\* the caller has the result of its PutObject
PutReturn(t) ==
    /\ pc[t] = "put_done"
    /\ pc' = [pc EXCEPT ![t] = "idle"]
    /\ req' = [req EXCEPT ![t] = NoRequest]
    /\ UNCHANGED <<extVars, catalogVars, workerVars, now, gateVars, lastOp, metaVars, byteVars, keyLocks,
                   nextVersion, nextUpload>>

\* The context is cancelled, or the byte store fails, before the metadata
\* commit: the request gives up; what it wrote to the byte store stays.
CancelWrite(t) ==
    /\ pc[t] \in {"put_write", "put_publish", "cmu_validate", "cmu_publish"}
    /\ Finish(t, "Canceled")
    /\ UNCHANGED <<extVars, catalogVars, workerVars, now, gateVars, lastOp, metaVars, byteVars, nextVersion, nextUpload>>

\* ---- DeleteObject --------------------------------------------------------
DeleteBegin(t, bucket, key, versionID) ==
    /\ Begin(t, Request("DeleteObject", bucket, key, <<>>, versionID, <<>>, <<>>),
             "del_meta")
    /\ UNCHANGED <<extVars, catalogVars, workerVars, now, gateVars, lastOp, metaVars, byteVars, nextVersion, nextUpload>>

\* lookup, gate, and the metadata half of the delete
DeleteMeta(t) ==
    LET r == req[t]
        d == DeleteDecision(r.bucket, r.key, r.versionID)
        vid == VersionFor(r.bucket)
    IN
    /\ pc[t] = "del_meta"
    /\ d = "marker" => vid <= MaxVersions
    /\ objects' =
          CASE d = "delete" -> StoreDeleteObject(objects, r.bucket, r.key, r.versionID)
            [] d = "marker" -> StorePutObject(objects, r.bucket, r.key,
                                 ObjectMetadata(r.bucket, r.key, 0, ETagOf(<<>>), vid, TRUE))
            [] OTHER -> objects
    /\ nextVersion' =
          IF d = "marker" /\ vid # NullVersion THEN nextVersion + 1 ELSE nextVersion
    /\ IF d = "delete"
         THEN /\ req' = [req EXCEPT ![t].versionID =
                            VictimVersion(r.bucket, r.key, r.versionID)]
              /\ pc' = [pc EXCEPT ![t] = "del_payload"]
              /\ UNCHANGED keyLocks
         ELSE Finish(t, IF d \in {"noop", "marker"} THEN "" ELSE d)
    /\ UNCHANGED <<extVars, catalogVars, workerVars, now, gateVars, lastOp, multipart, parts, versioning, byteVars,
                   nextUpload>>

\* the payload half of the delete
DeletePayload(t) ==
    /\ pc[t] = "del_payload"
    /\ payloads' = ByteDelete(payloads, req[t].bucket, req[t].key, req[t].versionID)
    /\ Finish(t, "")
    /\ UNCHANGED <<extVars, catalogVars, workerVars, now, gateVars, lastOp, metaVars, staged, nextVersion, nextUpload>>

\* ---- Multipart uploads ---------------------------------------------------
CreateMultipartUpload(bucket, key) ==
    /\ nextUpload <= MaxUploads
    /\ multipart' = StoreCreateMultipartUpload(multipart, bucket, key,
                                               UploadID(nextUpload))
    /\ nextUpload' = nextUpload + 1
    /\ UNCHANGED <<extVars, catalogVars, workerVars, now, gateVars, lastOp, objects, parts, versioning, byteVars,
                   keyLocks, pc, req, nextVersion>>

\* UploadPart: the part's payload, then its record (MD5 and size), which is
\* published under the key lock
UploadPart(bucket, key, uploadID, partNumber) ==
    LET data == PartData(partNumber)
        known == BoltHas(multipart, MultiKey(bucket, key, uploadID)) IN
    /\ LockFree(bucket, key)
    /\ staged' =
          IF known
            THEN StagePut(staged, "part",
                          PartKey(bucket, key, uploadID, partNumber), data)
            ELSE staged
    /\ parts' =
          IF known
            THEN StorePutPart(parts, bucket, key, uploadID, partNumber,
                    PartMetadata(bucket, key, uploadID, partNumber,
                                 MD5(data), Len(data)))
            ELSE parts
    /\ UNCHANGED <<extVars, catalogVars, workerVars, now, gateVars, lastOp, objects, multipart, versioning, payloads,
                   taskVars>>

CompleteBegin(t, bucket, key, uploadID, manifest) ==
    /\ Begin(t, Request("CompleteMultipartUpload", bucket, key, <<>>,
                        NullVersion, uploadID, manifest), "cmu_validate")
    /\ UNCHANGED <<extVars, catalogVars, workerVars, now, gateVars, lastOp, metaVars, byteVars, nextVersion, nextUpload>>

\* validate the manifest, then compose the final payload in the byte store
CompleteValidate(t) ==
    LET r == req[t]
        err == CompleteErr(r.bucket, r.key, r.uploadID, r.manifest)
    IN
    /\ pc[t] = "cmu_validate"
    /\ IF err = ""
         THEN /\ staged' = StagePut(staged, "tmp", ObjKey(req[t].bucket, req[t].key),
                              Compose(r.bucket, r.key, r.uploadID, r.manifest))
              /\ pc' = [pc EXCEPT ![t] = "cmu_publish"]
              /\ UNCHANGED <<keyLocks, req>>
         ELSE /\ Finish(t, err)
              /\ UNCHANGED staged
    /\ UNCHANGED <<extVars, catalogVars, workerVars, now, gateVars, lastOp, metaVars, payloads, nextVersion, nextUpload>>

\* publish the object version (the key lock is held)
CompletePublish(t) ==
    /\ pc[t] = "cmu_publish"
    /\ Publish(t, MultipartETag(RecordedManifest(req[t].bucket, req[t].key,
                                                 req[t].uploadID, req[t].manifest)))
    /\ pc' = [pc EXCEPT ![t] = "cmu_remove"]
    /\ UNCHANGED keyLocks

\* delete the staged parts and the upload record, unlock, return
CompleteRemove(t) ==
    LET r == req[t] IN
    /\ pc[t] = "cmu_remove"
    /\ multipart' = StoreCompleteMultipartUpload(multipart, r.bucket, r.key, r.uploadID)
    /\ parts' = StoreCompleteParts(parts, r.bucket, r.key, r.uploadID, r.manifest)
    /\ staged' = { p \in staged :
                     ~(p.kind = "part" /\
                       HasPrefix(p.owner, MultiKey(r.bucket, r.key, r.uploadID)
                                            \o <<SLASH>>)) }
    /\ Finish(t, "")
    /\ UNCHANGED <<extVars, catalogVars, workerVars, now, gateVars, lastOp, objects, versioning, payloads, nextVersion,
                   nextUpload>>

\* AbortMultipartUpload: the upload record and the staged part payloads
AbortMultipartUpload(bucket, key, uploadID) ==
    /\ LockFree(bucket, key)
    /\ multipart' = StoreAbortMultipartUpload(multipart, bucket, key, uploadID)
    /\ staged' = { p \in staged :
                     ~(p.kind = "part" /\
                       HasPrefix(p.owner, MultiKey(bucket, key, uploadID)
                                            \o <<SLASH>>)) }
    /\ UNCHANGED <<extVars, catalogVars, workerVars, now, gateVars, lastOp, objects, parts, versioning, payloads, taskVars>>

NextEngine ==
    \/ \E t \in Tasks, b \in Buckets, k \in Keys : PutBegin(t, b, k, <<1>>)
    \/ \E t \in Tasks : PutWrite(t)
    \/ \E t \in Tasks : PutPublish(t)
    \/ \E t \in Tasks : PutReturn(t)
    \/ \E t \in Tasks : CancelWrite(t)
    \/ \E t \in Tasks, b \in Buckets, k \in Keys, v \in DeleteVersions :
          DeleteBegin(t, b, k, v)
    \/ \E t \in Tasks : DeleteMeta(t)
    \/ \E t \in Tasks : DeletePayload(t)
    \/ \E b \in Buckets, k \in Keys : CreateMultipartUpload(b, k)
    \/ \E b \in Buckets, k \in Keys, u \in UploadIDs, n \in PartNumbers :
          UploadPart(b, k, u, n)
    \/ \E t \in Tasks, b \in Buckets, k \in Keys, u \in UploadIDs,
          ns \in PartLists, honest \in BOOLEAN :
          CompleteBegin(t, b, k, u, ClientManifest(b, k, u, ns, honest))
    \/ \E t \in Tasks : CompleteValidate(t)
    \/ \E t \in Tasks : CompletePublish(t)
    \/ \E t \in Tasks : CompleteRemove(t)
    \/ \E b \in Buckets, k \in Keys, u \in UploadIDs : AbortMultipartUpload(b, k, u)

SpecEngine == Init /\ [][NextEngine]_vars

\* The same request tasks on a bucket whose versioning status changes.
NextVersions ==
    \/ \E b \in Buckets, st \in {"Enabled", "Suspended"} : PutBucketVersioning(b, st)
    \/ \E t \in Tasks, b \in Buckets, k \in Keys, d \in Datas : PutBegin(t, b, k, d)
    \/ \E t \in Tasks : PutWrite(t)
    \/ \E t \in Tasks : PutPublish(t)
    \/ \E t \in Tasks : PutReturn(t)
    \/ \E t \in Tasks : CancelWrite(t)
    \/ \E t \in Tasks, b \in Buckets, k \in Keys, v \in DeleteVersions :
          DeleteBegin(t, b, k, v)
    \/ \E t \in Tasks : DeleteMeta(t)
    \/ \E t \in Tasks : DeletePayload(t)

SpecVersions == Init /\ [][NextVersions]_vars

(***************************************************************************)
(* Engine properties under SpecEngine and SpecVersions.                    *)
(***************************************************************************)
\* What a reader is handed: body, ETag and size (nothing for NoSuchKey).
Content(view) == IF view.ok THEN <<view.body, view.etag, view.size>> ELSE <<>>

RECURSIVE ConcatParts(_)
\* the payloads of the parts numbered ns, in that order
ConcatParts(ns) ==
    IF ns = <<>> THEN <<>> ELSE PartData(Head(ns)) \o ConcatParts(Tail(ns))

\* The content of the fully assembled object of a completion request r.
Assembled(r) ==
    LET ns == [i \in 1..Len(r.manifest) |-> r.manifest[i].PartNumber]
        tags == [i \in 1..Len(ns) |-> [PartNumber |-> ns[i], ETag |-> MD5(PartData(ns[i]))]]
    IN  <<ConcatParts(ns), MultipartETag(tags), Len(ConcatParts(ns))>>

Completing(t) == pc[t] \in {"cmu_validate", "cmu_publish", "cmu_remove"}

C6_OneWriterWins ==
    \A b \in Buckets, k \in Keys :
        (\A t \in Tasks : pc[t] = "put_done" /\ req[t].bucket = b /\ req[t].key = k)
          => \E t \in Tasks :
                Content(View(b, k)) =
                    <<req[t].data, ETagOf(req[t].data), Len(req[t].data)>>

\* C6 witness: two tasks have completed PutObjects of distinct payloads.
C6_Witness ==
    /\ \A t \in Tasks : pc[t] = "put_done"
    /\ \E t1 \in Tasks, t2 \in Tasks :
          /\ req[t1].data # req[t2].data
          /\ req[t1].bucket = req[t2].bucket /\ req[t1].key = req[t2].key
          /\ View(req[t1].bucket, req[t1].key).ok

\* the records of (bucket, key) that are flagged as latest
LatestRecords(bucket, key) ==
    { r \in objects : r.v.Bucket = bucket /\ r.v.Key = key /\ r.v.IsLatest }

C8_NoOrphanMetadata ==
    \A r \in objects :
        ~r.v.IsDeleteMarker => ByteHas(payloads, r.v.Bucket, r.v.Key, r.v.VersionID)

\* C8 witness: a CompleteMultipartUpload was cancelled after it had composed
\* its payload; the payload is an orphan, the key is unlocked, a version
\* published earlier is still served.
C8_Witness ==
    \E b \in Buckets, k \in Keys :
        /\ LockFree(b, k)
        /\ StageHas(staged, "tmp", ObjKey(b, k))
        /\ Len(StageGet(staged, "tmp", ObjKey(b, k))) = 3
        /\ View(b, k).ok

\* C9: the step that commits PutObject(b,k,v) leaves a reader of (b,k)
\* without versionID with exactly v, and HeadObject with size |v| and the
\* ETag of v.
C9_ReadAfterWrite ==
    [][\A t \in Tasks :
          PutPublish(t) =>
            Content(ViewNext(req[t].bucket, req[t].key)) =
                <<req[t].data, ETagOf(req[t].data), Len(req[t].data)>>]_vars

\* C9 witness: a PutObject of the two-byte payload has committed over an
\* earlier version and the payload is what a reader gets.
C9_Witness ==
    \E t \in Tasks :
        /\ pc[t] = "put_done"
        /\ req[t].data = <<2, 2>>
        /\ View(req[t].bucket, req[t].key).ok
        /\ View(req[t].bucket, req[t].key).body = <<2, 2>>
        /\ versioning[req[t].bucket] = "Enabled"
        /\ View(req[t].bucket, req[t].key).versionID = 2

\* GetObject(bucket, key, versionID) finds the record of that version.
Retrievable(objs, bucket, key, versionID) ==
    /\ StoreHasObject(objs, bucket, key, versionID)
    /\ StoreGetObject(objs, bucket, key, versionID).VersionID = versionID

\* C10: under versioning Enabled, the commit of a PutObject adds a version
\* with a versionID no stored version has, and every version that could be
\* retrieved by its versionID before can still be retrieved after.
C10_VersionsRetained ==
    [][\A t \in Tasks :
          (PutPublish(t) /\ versioning[req[t].bucket] = "Enabled")
            => LET b == req[t].bucket
                   k == req[t].key
               IN
               /\ \A r \in objects : r.v.VersionID # VersionFor(b)
               /\ Retrievable(objects', b, k, VersionFor(b))
               /\ \A v \in 1..MaxVersions :
                     Retrievable(objects, b, k, v) => Retrievable(objects', b, k, v)]_vars

\* the data versions of (bucket, key) whose payload the byte store holds
StoredVersions(bucket, key) ==
    { p.version : p \in { q \in payloads : q.bucket = bucket /\ q.key = key } }

\* C11: under versioning Enabled, the metadata step of DeleteObject with
\* versionID v removes no record of another version, and when v was the
\* latest version and an earlier data version is stored, a reader without
\* versionID is then handed that earlier version.
C11_DeleteNamedVersion ==
    [][\A t \in Tasks :
          ( /\ DeleteMeta(t)
            /\ versioning[req[t].bucket] = "Enabled"
            /\ req[t].versionID # NullVersion
            /\ DeleteDecision(req[t].bucket, req[t].key, req[t].versionID) = "delete" )
            => LET b == req[t].bucket
                   k == req[t].key
                   v == req[t].versionID
                   earlier == { u \in StoredVersions(b, k) : u # NullVersion /\ u < v }
               IN
               /\ \A r \in objects : r.v.VersionID # v => r \in objects'
               /\ ( /\ StoreGetObject(objects, b, k, NullVersion).VersionID = v
                    /\ earlier # {} )
                    => /\ ViewNext(b, k).ok
                       /\ \A u \in earlier : ViewNext(b, k).versionID >= u]_vars

(***************************************************************************)
(* BBoltStore: the buckets name-space (specification SpecBuckets).  Every  *)
(* operation is one bbolt transaction, so the operations are serial.       *)
(***************************************************************************)
BucketMetadata(name, creationDate) == [Name |-> name, CreationDate |-> creationDate]

\* BBoltStore.CreateBucket: buckets.Put(bucket, {Name, CreationDate: nowUnix()})
StoreCreateBucket(bs, bucket, unix) ==
    BoltPut(bs, bucket, BucketMetadata(bucket, unix))

\* BBoltStore.DeleteBucket: buckets.Delete(bucket)
StoreDeleteBucket(bs, bucket) == BoltDelete(bs, bucket)

\* Router.CreateBucket -> CreateBucket of the engine -> BBoltStore.CreateBucket
CreateBucket(bucket) ==
    /\ buckets' = StoreCreateBucket(buckets, bucket, now)
    /\ UNCHANGED <<extVars, workerVars, listing, now, gateVars, lastOp, metaVars, byteVars, taskVars>>

\* Router.DeleteBucket -> DeleteBucket of the engine -> BBoltStore.DeleteBucket
DeleteBucket(bucket) ==
    /\ buckets' = StoreDeleteBucket(buckets, bucket)
    /\ UNCHANGED <<extVars, workerVars, listing, now, gateVars, lastOp, metaVars, byteVars, taskVars>>

\* PutObject, DeleteObject and the multipart requests on a bucket that exists
BucketPutObject(bucket, key, data) ==
    BoltHas(buckets, bucket) /\ PutObjectSerial(bucket, key, data)

BucketDeleteObject(bucket, key) ==
    BoltHas(buckets, bucket) /\ RouterDeleteObject(bucket, key, NullVersion, FALSE, TRUE)

BucketCreateMultipartUpload(bucket, key) ==
    BoltHas(buckets, bucket) /\ CreateMultipartUpload(bucket, key)

BucketAbortMultipartUpload(bucket, key, uploadID) ==
    BoltHas(buckets, bucket) /\ AbortMultipartUpload(bucket, key, uploadID)

NextBuckets ==
    \/ Tick
    \/ \E b \in Buckets : CreateBucket(b)
    \/ \E b \in Buckets : DeleteBucket(b)
    \/ \E b \in Buckets, k \in Keys, d \in Datas : BucketPutObject(b, k, d)
    \/ \E b \in Buckets, k \in Keys : BucketDeleteObject(b, k)
    \/ \E b \in Buckets, k \in Keys : BucketCreateMultipartUpload(b, k)
    \/ \E b \in Buckets, k \in Keys, u \in UploadIDs : BucketAbortMultipartUpload(b, k, u)

SpecBuckets == Init /\ [][NextBuckets]_vars

\* the object versions of a bucket that are not delete markers
LiveObjects(bucket) ==
    { r \in objects : r.v.Bucket = bucket /\ ~r.v.IsDeleteMarker }

\* the multipart uploads of a bucket that were neither completed nor aborted
InFlightUploads(bucket) == { r \in multipart : r.v.Bucket = bucket }

\* C12: DeleteBucket(b) on a bucket that holds a live object or an in-flight
\* multipart upload leaves the bucket, its objects and its uploads as they
\* were.
C12_DeleteBucketOnlyWhenEmpty ==
    [][\A b \in Buckets :
          ( /\ DeleteBucket(b)
            /\ BoltHas(buckets, b)
            /\ (LiveObjects(b) # {} \/ InFlightUploads(b) # {}) )
            => /\ buckets' = buckets
               /\ objects' = objects
               /\ multipart' = multipart]_vars

\* C13: CreateBucket(b) on an existing bucket leaves the bucket record, its
\* creation timestamp included, as it was.
C13_CreateBucketWhenAbsent ==
    [][\A b \in Buckets :
          (CreateBucket(b) /\ BoltHas(buckets, b)) => buckets' = buckets]_vars

(***************************************************************************)
(* Multipart properties under SpecEngine.                                  *)
(***************************************************************************)
\* the metadata store holds no trace of the upload
UploadGone(mp, ps, bucket, key, uploadID) ==
    /\ ~BoltHas(mp, MultiKey(bucket, key, uploadID))
    /\ StoreListParts(ps, bucket, key, uploadID) = {}

\* C14: AbortMultipartUpload(b,k,U) on a known upload leaves neither the
\* upload record of U nor a part record staged under U in the metadata store.
C14_AbortRemovesAll ==
    [][\A b \in Buckets, k \in Keys, u \in UploadIDs :
          (AbortMultipartUpload(b, k, u) /\ BoltHas(multipart, MultiKey(b, k, u)))
            => UploadGone(multipart', parts', b, k, u)]_vars

\* C15: the last step of a successful CompleteMultipartUpload(b,k,U,manifest)
\* leaves neither a part record staged under U nor the upload record of U in
\* the metadata store.
C15_CompleteRemovesAll ==
    [][\A t \in Tasks :
          CompleteRemove(t)
            => UploadGone(multipart', parts', req[t].bucket, req[t].key,
                          req[t].uploadID)]_vars

\* a manifest entry names a part that was never staged, or asserts an ETag
\* other than the one recorded for the staged part
BadEntry(bucket, key, uploadID, manifest) ==
    \E i \in 1..Len(manifest) :
        LET rec == RecordedPart(bucket, key, uploadID, manifest[i].PartNumber) IN
        \/ rec = {}
        \/ \E m \in rec : m.ETag # manifest[i].ETag

\* C16: the validation step of CompleteMultipartUpload on a manifest with a
\* bad entry ends the request, publishes no object version and leaves the
\* upload record and the part records as they were.
C16_BadManifestRejected ==
    [][\A t \in Tasks :
          ( /\ CompleteValidate(t)
            /\ BoltHas(multipart, MultiKey(req[t].bucket, req[t].key, req[t].uploadID))
            /\ BadEntry(req[t].bucket, req[t].key, req[t].uploadID, req[t].manifest) )
            => /\ pc'[t] = "idle"
               /\ objects' = objects
               /\ multipart' = multipart
               /\ parts' = parts]_vars

\* What UploadPart returns: the engine looks the upload up first.
UploadPartErr(bucket, key, uploadID) ==
    IF BoltHas(multipart, MultiKey(bucket, key, uploadID)) THEN "" ELSE "NoSuchUpload"

\* What BBoltStore.AbortMultipartUpload returns: the result of
\* multipart.Delete(multiKey), which is nil for a key that is absent too.
StoreAbortMultipartUploadErr(mp, bucket, key, uploadID) ==
    IF BoltHas(mp, MultiKey(bucket, key, uploadID)) THEN "" ELSE ""

\* uploadID was handed out for (bucket, key) and its upload record is gone
Destroyed(bucket, key, uploadID) ==
    /\ \E n \in 1..(nextUpload - 1) : uploadID = UploadID(n)
    /\ ~BoltHas(multipart, MultiKey(bucket, key, uploadID))

\* C17: once the upload of uploadID is destroyed, UploadPart,
\* CompleteMultipartUpload and AbortMultipartUpload naming it return
\* NoSuchUpload, and such an UploadPart or AbortMultipartUpload changes
\* neither store.
C17_DestroyedUploadStaysGone ==
    [][\A b \in Buckets, k \in Keys, u \in UploadIDs :
          Destroyed(b, k, u)
            => /\ UploadPartErr(b, k, u) = "NoSuchUpload"
               /\ \A ns \in PartLists :
                     CompleteErr(b, k, u, ClientManifest(b, k, u, ns, TRUE)) = "NoSuchUpload"
               /\ StoreAbortMultipartUploadErr(multipart, b, k, u) = "NoSuchUpload"
               /\ ( \/ AbortMultipartUpload(b, k, u)
                    \/ \E n \in PartNumbers : UploadPart(b, k, u, n) )
                    => UNCHANGED <<metaVars, byteVars>>]_vars

(***************************************************************************)
(* BBoltStore: cursor scans (specifications SpecListParts, SpecListObjects)*)
(***************************************************************************)
RECURSIVE BytesLess(_, _)
\* bytes.Compare(a, b) < 0, the key order of a bbolt bucket
BytesLess(a, b) ==
    IF b = <<>> THEN FALSE
    ELSE IF a = <<>> THEN TRUE
    ELSE IF Head(a) # Head(b) THEN Head(a) < Head(b)
    ELSE BytesLess(Tail(a), Tail(b))

RECURSIVE CursorFrom(_, _)
\* cursor.Seek(seek) followed by cursor.Next() to the end of the bucket: the
\* pairs whose key is not below seek, in key order
CursorFrom(bkt, seek) ==
    LET rest == { r \in bkt : ~BytesLess(r.k, seek) } IN
    IF rest = {} THEN <<>>
    ELSE LET first == CHOOSE r \in rest :
                         \A q \in rest : q = r \/ BytesLess(r.k, q.k)
         IN  <<first>> \o CursorFrom(rest \ {first}, seek)

RECURSIVE ScanWhile(_, _, _)
\* the loop body of ListObjects and ListParts: values are appended while
\* fewer than limit are collected, and the loop breaks at the first key that
\* does not start with prefix
ScanWhile(cursor, prefix, limit) ==
    IF cursor = <<>> \/ limit <= 0 THEN <<>>
    ELSE IF ~HasPrefix(Head(cursor).k, prefix) THEN <<>>
    ELSE <<Head(cursor).v>> \o ScanWhile(Tail(cursor), prefix, limit - 1)

\* BBoltStore.ListParts: the slice it returns, in cursor order
StoreListPartsInOrder(ps, bucket, key, uploadID) ==
    LET prefix == MultiKey(bucket, key, uploadID) \o <<SLASH>> IN
    ScanWhile(CursorFrom(ps, prefix), prefix, Cardinality(ps))

\* part numbers of the uploads that are listed
ListedPartNumbers == {1, 2, 10, 11}

\* Router.ListParts: the bucket is looked up, then the parts the engine
\* hands over (BBoltStore.ListParts) are copied to the response in order
ListParts(bucket, key, uploadID) ==
    /\ listing' =
          IF ~BoltHas(buckets, bucket)
            THEN [ op |-> "ListParts", uploadID |-> uploadID,
                   err |-> "NoSuchBucket", parts |-> <<>> ]
            ELSE [ op |-> "ListParts", uploadID |-> uploadID, err |-> "",
                   parts |-> StoreListPartsInOrder(parts, bucket, key, uploadID) ]
    /\ UNCHANGED <<extVars, workerVars, buckets, now, gateVars, lastOp, metaVars, byteVars, taskVars>>

NextListParts ==
    \/ \E b \in Buckets : CreateBucket(b)
    \/ \E b \in Buckets, k \in Keys : CreateMultipartUpload(b, k)
    \/ \E b \in Buckets, k \in Keys, u \in UploadIDs, n \in ListedPartNumbers :
          UploadPart(b, k, u, n)
    \/ \E b \in Buckets, k \in Keys, u \in UploadIDs : AbortMultipartUpload(b, k, u)
    \/ \E b \in Buckets, k \in Keys, u \in UploadIDs : ListParts(b, k, u)

SpecListParts == Init /\ [][NextListParts]_vars

\* C18: the parts ListParts returns are in ascending order of PartNumber.
C18_ListPartsAscending ==
    (listing.op = "ListParts" /\ listing.err = "")
      => \A i \in 1..Len(listing.parts), j \in 1..Len(listing.parts) :
            i < j => listing.parts[i].PartNumber < listing.parts[j].PartNumber

(***************************************************************************)
(* Object listings (specification SpecListObjects).                        *)
(***************************************************************************)
\* maxKeys of a ListOptions whose MaxKeys is 0
DefaultMaxKeys == 1000

ListOptions(maxKeys, marker) == [MaxKeys |-> maxKeys, Marker |-> marker]

\* maxKeys := opts.MaxKeys; if maxKeys == 0 { maxKeys = 1000 }
StoreMaxKeys(opts) == IF opts.MaxKeys = 0 THEN DefaultMaxKeys ELSE opts.MaxKeys

\* BBoltStore.ListObjects: seek to bucket/prefix, collect up to maxKeys
\* records, stop at the first key outside "bucket/"; opts.Marker is not read
StoreListObjects(objs, bucket, prefix, opts) ==
    LET maxKeys == StoreMaxKeys(opts) IN
    ScanWhile(CursorFrom(objs, bucket \o <<SLASH>> \o prefix),
              bucket \o <<SLASH>>, maxKeys)

\* ListObjects of the engine: one scan of the metadata store from the
\* continuation token; up to maxKeys entries are emitted and the next unread
\* key, if there is one, becomes the next continuation token
EngineListObjects(objs, bucket, prefix, maxKeys, token) ==
    LET got == StoreListObjects(objs, bucket, prefix, ListOptions(maxKeys + 1, token))
        n == IF Len(got) > maxKeys THEN maxKeys ELSE Len(got)
    IN  [ Objects |-> SubSeq(got, 1, n),
          IsTruncated |-> Len(got) > maxKeys,
          NextMarker |-> IF Len(got) > maxKeys THEN got[maxKeys + 1].Key ELSE <<>> ]

\* buckets, keys, prefixes and max-keys values of the listing requests
ListedBuckets == { <<97>>, <<98>> }

ListedKeys == { <<97>>, <<97, 98>>, <<98>> }

Prefixes == { <<>>, <<97>> }

PageSizes == {1, 2}

\* the keys of a slice of object records, and the set of them
KeysOf(objs) == [i \in 1..Len(objs) |-> objs[i].Key]

KeySet(keys) == { keys[i] : i \in 1..Len(keys) }

\* the keys of the bucket that start with the prefix
Matching(objs, bucket, prefix) ==
    { r.v.Key : r \in { q \in objs : q.v.Bucket = bucket /\ HasPrefix(q.v.Key, prefix) } }

\* the metadata commit and the payload of a PutObject on an existing bucket
ListedPutObject(bucket, key) ==
    /\ BoltHas(buckets, bucket)
    /\ objects' = StorePutObject(objects, bucket, key,
                    ObjectMetadata(bucket, key, 1, ETagOf(<<1>>), NullVersion, FALSE))
    /\ payloads' = BytePut(payloads, bucket, key, NullVersion, <<1>>)
    /\ UNCHANGED <<extVars, catalogVars, workerVars, now, gateVars, lastOp, multipart, parts, versioning,
                   staged, taskVars>>

\* Router.ListObjectsV2: a first page (no continuation-token), or the next
\* page of the truncated listing served last, with the token it returned.
\* seen: the keys of the earlier pages; throughout: the matching keys at the
\* first page (no request of this specification removes a key).
ListObjectsV2(bucket, prefix, maxKeys, resume) ==
    LET token == IF resume THEN listing.next ELSE <<>>
        result == EngineListObjects(objects, bucket, prefix, maxKeys, token)
    IN
    /\ resume => /\ listing.op = "ListObjects"
                 /\ listing.bucket = bucket /\ listing.prefix = prefix
                 /\ listing.truncated
    /\ listing' = [ op |-> "ListObjects", bucket |-> bucket, prefix |-> prefix,
                    token |-> token,
                    keys |-> KeysOf(result.Objects),
                    truncated |-> result.IsTruncated,
                    next |-> result.NextMarker,
                    seen |-> IF resume THEN listing.seen \cup KeySet(listing.keys)
                                       ELSE {},
                    throughout |-> IF resume THEN listing.throughout
                                             ELSE Matching(objects, bucket, prefix) ]
    /\ UNCHANGED <<extVars, workerVars, buckets, now, gateVars, lastOp, metaVars, byteVars, taskVars>>

NextListObjects ==
    \/ \E b \in ListedBuckets : CreateBucket(b)
    \/ \E b \in ListedBuckets, k \in ListedKeys : ListedPutObject(b, k)
    \/ \E b \in ListedBuckets, p \in Prefixes, m \in PageSizes, resume \in BOOLEAN :
          ListObjectsV2(b, p, m, resume)

SpecListObjects == Init /\ [][NextListObjects]_vars

\* C19: a listing of (bucket, prefix) from the start returns only keys of
\* that bucket that start with the prefix, and all of them when it is not
\* truncated.
C19_ListObjectsExactPrefix ==
    [][\A b \in ListedBuckets, p \in Prefixes, m \in PageSizes :
          ListObjectsV2(b, p, m, FALSE)
            => /\ KeySet(listing'.keys) \subseteq Matching(objects, b, p)
               /\ ~listing'.truncated
                    => KeySet(listing'.keys) = Matching(objects, b, p)]_vars

\* C20: a page resumed with the token of a truncated page repeats no key of
\* an earlier page and no key within itself, and when the listing ends every
\* matching key that existed from the first page on has been returned.
C20_ResumeStable ==
    [][\A b \in ListedBuckets, p \in Prefixes, m \in PageSizes :
          ListObjectsV2(b, p, m, TRUE)
            => /\ KeySet(listing'.keys) \cap listing'.seen = {}
               /\ Cardinality(KeySet(listing'.keys)) = Len(listing'.keys)
               /\ ~listing'.truncated
                    => listing'.throughout
                         \subseteq (listing'.seen \cup KeySet(listing'.keys))]_vars

(***************************************************************************)
(* Router.ListObjectsV2: the max-keys query parameter (specification       *)
(* SpecMaxKeys).                                                           *)
(***************************************************************************)
\* longest max-keys parameter a client sends
MaxParamLen == 5

\* default of parseInt(max-keys, 1000) and the cap of opts.MaxKeys
RouterDefaultMaxKeys == 1000

MaxKeysCap == 10000

\* characters of the parameter: '-', '0', '1', 'x'
ParamChars == {45, 48, 49, 120}

\* req.URL.Query().Get("max-keys"): "" when the parameter is absent
Params == UNION { [1..n -> ParamChars] : n \in 0..MaxParamLen }

IsDigit(c) == c >= 48 /\ c <= 57

RECURSIVE DigitsValue(_)
DigitsValue(ds) ==
    IF ds = <<>> THEN 0
    ELSE DigitsValue(SubSeq(ds, 1, Len(ds) - 1)) * 10 + (ds[Len(ds)] - ZERO)

\* strconv.Atoi: an optional sign and decimal digits (the parameters are too
\* short to leave the range of int)
Atoi(str) ==
    LET signed == str # <<>> /\ str[1] \in {43, 45}
        digits == IF signed THEN Tail(str) ELSE str
    IN  IF digits = <<>> \/ \E i \in 1..Len(digits) : ~IsDigit(digits[i])
          THEN [ok |-> FALSE, val |-> 0]
          ELSE [ok |-> TRUE,
                val |-> IF signed /\ str[1] = 45 THEN 0 - DigitsValue(digits)
                                                 ELSE DigitsValue(digits)]

\* parseInt(s, defaultVal)
parseInt(str, defaultVal) ==
    IF str = <<>> THEN defaultVal
    ELSE IF ~Atoi(str).ok THEN defaultVal
    ELSE Atoi(str).val

\* opts.MaxKeys without the cap
RouterMaxKeys_NoCap(param) == parseInt(param, RouterDefaultMaxKeys)

\* opts.MaxKeys of Router.ListObjectsV2
RouterMaxKeys(param) ==
    LET maxKeys == parseInt(param, RouterDefaultMaxKeys) IN
    IF maxKeys > MaxKeysCap THEN MaxKeysCap ELSE maxKeys

\* Router.ListObjectsV2 up to the call of the engine: the options it builds
\* and the limit the store's scan applies to them (one request per behaviour:
\* the options depend on the parameter only)
ListObjectsV2Options(param) ==
    /\ listing = NoListing
    /\ listing' = [ op |-> "ListObjectsV2Options", param |-> param,
                    MaxKeys |-> RouterMaxKeys(param),
                    limit |-> StoreMaxKeys(ListOptions(RouterMaxKeys(param), <<>>)) ]
    /\ UNCHANGED <<extVars, workerVars, buckets, now, gateVars, lastOp, metaVars, byteVars, taskVars>>

NextMaxKeys == \E param \in Params : ListObjectsV2Options(param)

SpecMaxKeys == Init /\ [][NextMaxKeys]_vars

\* C21: the maxKeys of a ListObjectsV2 request, and the limit of the scan it
\* leads to, is at most 10000 for every max-keys parameter and is 1000 when
\* the parameter is absent.
C21_MaxKeysClamped ==
    listing.op = "ListObjectsV2Options"
      => /\ listing.MaxKeys <= MaxKeysCap
         /\ listing.limit <= MaxKeysCap
         /\ listing.param = <<>>
              => (listing.MaxKeys = RouterDefaultMaxKeys /\ listing.limit = 1000)

\* C21 witness: a parameter above the cap was clamped to 10000.
C21_Witness ==
    /\ listing.op = "ListObjectsV2Options"
    /\ Atoi(listing.param).ok
    /\ Atoi(listing.param).val > MaxKeysCap
    /\ listing.MaxKeys = MaxKeysCap


(***************************************************************************)
(* lifecycle.Processor: the rules of a bucket and one pass over the        *)
(* buckets (specifications SpecExpiration, SpecTransition, SpecNoncurrent).*)
(* The clock of these specifications counts seconds.                       *)
(***************************************************************************)
\* seconds of one day: what AddDate(0, 0, -1) takes from a Unix time
DaySeconds == 86400

\* MaxKeys of the one ListObjects call of processExpiration / processTransitions
LifecyclePageSize == 1000

UNDERSCORE == 95

\* ids of the rules: "e", "n", "t"
ExpirationID == <<101>>

NoncurrentID == <<110>>

TransitionID == <<116>>

\* the prefix of every rule of the model: "k"
RulePrefix == <<107>>

StorageClasses == {"STANDARD", "GLACIER"}

\* *Expiration and *NoncurrentVersionExpiration: ok is "not nil"
NoExpiration == [ok |-> FALSE, Days |-> 0]

Expiration(days) == [ok |-> TRUE, Days |-> days]

NoNoncurrent == [ok |-> FALSE, NoncurrentDays |-> 0]

NoncurrentVersionExpiration(days) == [ok |-> TRUE, NoncurrentDays |-> days]

Transition(days, storageClass) == [Days |-> days, StorageClass |-> storageClass]

LifecycleRule(id, prefix, status, expiration, transitions, noncurrent) ==
    [ ID |-> id, Prefix |-> prefix, Status |-> status, Expiration |-> expiration,
      Transitions |-> transitions, NoncurrentVersionExpiration |-> noncurrent ]

\* BBoltStore.PutLifecycleRule: lifecycle.Put(bucket+"_"+rule.ID, rule)
StorePutLifecycleRule(rs, bucket, rule) ==
    BoltPut(rs, bucket \o <<UNDERSCORE>> \o rule.ID, rule)

\* BBoltStore.GetLifecycleRules: the rules under bucket+"_", in key order
StoreGetLifecycleRules(rs, bucket) ==
    ScanWhile(CursorFrom(rs, bucket \o <<UNDERSCORE>>), bucket \o <<UNDERSCORE>>,
              Cardinality(rs))

\* BBoltStore.ListBuckets: the keys of the buckets name-space, in key order
StoreListBuckets(bs) ==
    LET cursor == CursorFrom(bs, <<>>) IN [i \in 1..Len(cursor) |-> cursor[i].k]

\* the record of an object with its time stamp and storage class
TimedMetadata(meta, lastModified, storageClass) ==
    meta @@ [LastModified |-> lastModified, StorageClass |-> storageClass]

\* What a pass works on: the object records, the payloads, the source of
\* version identifiers, and the calls it has made that write (ops).
World(objs, ps, nv, ops) ==
    [objects |-> objs, payloads |-> ps, nextVersion |-> nv, ops |-> ops]

Logged(w, op, rule, key, err) ==
    [w EXCEPT !.ops = @ \cup {[op |-> op, rule |-> rule.ID, key |-> key, err |-> err,
                               at |-> now]}]

\* ObjectService.DeleteObject(bucket, key, DeleteObjectOptions{}) on the
\* records of w: the decision of the foreground delete, then its writes
EngineDeleteErr(w, bucket, key) ==
    LET d == IF ~StoreHasObject(w.objects, bucket, key, NullVersion) THEN "noop"
             ELSE DeleteDecision(bucket, key, NullVersion)
    IN  IF d \in {"noop", "marker", "delete"} THEN "" ELSE d

EngineDeleteObject(w, bucket, key) ==
    LET d == IF ~StoreHasObject(w.objects, bucket, key, NullVersion) THEN "noop"
             ELSE DeleteDecision(bucket, key, NullVersion)
        vid == IF versioning[bucket] = "Enabled" THEN w.nextVersion ELSE NullVersion
    IN  CASE d = "delete" ->
               [w EXCEPT !.objects = StoreDeleteObject(@, bucket, key, NullVersion),
                         !.payloads = ByteDelete(@, bucket, key,
                             StoreGetObject(w.objects, bucket, key, NullVersion).VersionID)]
          [] d = "marker" ->
               [w EXCEPT !.objects = StorePutObject(@, bucket, key,
                             TimedMetadata(ObjectMetadata(bucket, key, 0, ETagOf(<<>>),
                                                          vid, TRUE), now, "")),
                         !.nextVersion = IF vid = NullVersion THEN @ ELSE @ + 1]
          [] OTHER -> w

\* ObjectService.CopyObject(srcBucket, srcKey, dstBucket, dstKey): the bytes
\* and the attributes of the source are put at the destination as a new
\* write (the call carries no storage class).
EngineCopyObject(w, srcBucket, srcKey, dstBucket, dstKey) ==
    IF ~StoreHasObject(w.objects, srcBucket, srcKey, NullVersion) THEN w
    ELSE LET src == StoreGetObject(w.objects, srcBucket, srcKey, NullVersion)
             vid == IF versioning[dstBucket] = "Enabled" THEN w.nextVersion
                                                         ELSE NullVersion
         IN  [w EXCEPT
                !.objects = StorePutObject(@, dstBucket, dstKey,
                               [src EXCEPT !.Bucket = dstBucket, !.Key = dstKey,
                                           !.VersionID = vid, !.LastModified = now]),
                !.payloads = IF ByteHas(w.payloads, srcBucket, srcKey, src.VersionID)
                               THEN BytePut(@, dstBucket, dstKey, vid,
                                       ByteGet(w.payloads, srcBucket, srcKey, src.VersionID))
                               ELSE @,
                !.nextVersion = IF vid = NullVersion THEN @ ELSE @ + 1]

\* processExpiration with the record deleted in the metadata store directly
processExpirationObject_StoreDelete(w, bucket, rule, obj, cutoffTime) ==
    IF obj.LastModified < cutoffTime
        THEN Logged([w EXCEPT !.objects = StoreDeleteObject(@, bucket, obj.Key, NullVersion)],
                    "DeleteObject", rule, obj.Key, "")
        ELSE w

\* the body of the loop of processExpiration
processExpirationObject(w, bucket, rule, obj, cutoffTime) ==
    IF obj.LastModified < cutoffTime
        THEN Logged(EngineDeleteObject(w, bucket, obj.Key),
                    "DeleteObject", rule, obj.Key, EngineDeleteErr(w, bucket, obj.Key))
        ELSE w

RECURSIVE processExpirationLoop(_, _, _, _, _)
processExpirationLoop(w, bucket, rule, objs, cutoffTime) ==
    IF objs = <<>> THEN w
    ELSE processExpirationLoop(
            processExpirationObject(w, bucket, rule, Head(objs), cutoffTime),
            bucket, rule, Tail(objs), cutoffTime)

\* Processor.processExpiration: one page of the listing under rule.Prefix
processExpiration(w, bucket, rule) ==
    LET cutoffTime == now - rule.Expiration.Days * DaySeconds
        result == EngineListObjects(w.objects, bucket, rule.Prefix,
                                    LifecyclePageSize, <<>>)
    IN  processExpirationLoop(w, bucket, rule, result.Objects, cutoffTime)


\* the body of the loop over rule.Transitions for one object: objMeta is
\* the record HeadObject returned before the loop
RECURSIVE processTransitionsOf(_, _, _, _, _)
processTransitionsOf(w, bucket, rule, objMeta, transitions) ==
    IF transitions = <<>> THEN w
    ELSE LET transition == Head(transitions)
             days == transition.Days
             age == now - objMeta.LastModified
             w2 == IF days = 0 THEN w
                   ELSE IF ~(age >= days) THEN w
                   ELSE IF objMeta.StorageClass = transition.StorageClass THEN w
                   ELSE Logged(EngineCopyObject(w, bucket, objMeta.Key, bucket, objMeta.Key),
                               "CopyObject", rule, objMeta.Key, "")
         IN  processTransitionsOf(w2, bucket, rule, objMeta, Tail(transitions))

RECURSIVE processTransitionsLoop(_, _, _, _)
processTransitionsLoop(w, bucket, rule, objs) ==
    IF objs = <<>> THEN w
    ELSE LET obj == Head(objs)
             w2 == IF ~StoreHasObject(w.objects, bucket, obj.Key, NullVersion) THEN w
                   ELSE processTransitionsOf(w, bucket, rule,
                            StoreGetObject(w.objects, bucket, obj.Key, NullVersion),
                            rule.Transitions)
         IN  processTransitionsLoop(w2, bucket, rule, Tail(objs))

\* Processor.processTransitions: one page of the listing of the whole bucket
\* (ListObjectsOptions{MaxKeys: 1000}, no Prefix)
processTransitions(w, bucket, rule) ==
    LET result == EngineListObjects(w.objects, bucket, <<>>, LifecyclePageSize, <<>>)
    IN  processTransitionsLoop(w, bucket, rule, result.Objects)

\* Processor.processNoncurrentVersionExpiration: returns, or writes a line
\* to the log
processNoncurrentVersionExpiration(w, bucket, rule) == w

\* Processor.processRule
processRule(w, bucket, rule) ==
    LET w1 == IF rule.Expiration.ok /\ rule.Expiration.Days > 0
                THEN processExpiration(w, bucket, rule) ELSE w
        w2 == IF Len(rule.Transitions) > 0
                THEN processTransitions(w1, bucket, rule) ELSE w1
    IN  IF rule.NoncurrentVersionExpiration.ok
          THEN processNoncurrentVersionExpiration(w2, bucket, rule) ELSE w2

RECURSIVE processRules(_, _, _)
processRules(w, bucket, rs) ==
    IF rs = <<>> THEN w
    ELSE processRules(IF Head(rs).Status # "Enabled" THEN w
                      ELSE processRule(w, bucket, Head(rs)),
                      bucket, Tail(rs))

\* Processor.processBucket (stopCh stays open)
processBucket(w, bucket) == processRules(w, bucket, StoreGetLifecycleRules(rules, bucket))

RECURSIVE processBucketsLoop(_, _)
processBucketsLoop(w, bs) ==
    IF bs = <<>> THEN w
    ELSE processBucketsLoop(processBucket(w, Head(bs)), Tail(bs))

\* Processor.processBuckets (stopCh stays open)
processBuckets(w) == processBucketsLoop(w, StoreListBuckets(buckets))

\* One pass of the worker, from the tick to the return of processBuckets.
\* pass.n tells an odd pass from an even one.
LifecyclePass ==
    LET w == processBuckets(World(objects, payloads, nextVersion, {})) IN
    /\ objects' = w.objects
    /\ payloads' = w.payloads
    /\ nextVersion' = w.nextVersion
    /\ pass' = [n |-> 1 + (pass.n % 2), ops |-> w.ops]
    /\ UNCHANGED <<extVars, catalogVars, rules, schedVars, now, gateVars, lastOp, multipart,
                   parts, versioning, staged, keyLocks, pc, req, nextUpload>>

\* Processor.AddRule -> PutLifecycleRule of the engine -> BBoltStore.PutLifecycleRule
AddRule(bucket, rule) ==
    /\ rules' = StorePutLifecycleRule(rules, bucket, rule)
    /\ UNCHANGED <<extVars, catalogVars, pass, schedVars, now, gateVars, lastOp, metaVars,
                   byteVars, taskVars>>

\* Router.PutObject with the x-amz-storage-class header, run to completion
\* on a bucket that exists
TimedPutObject(bucket, key, storageClass) ==
    LET vid == VersionFor(bucket) IN
    /\ BoltHas(buckets, bucket)
    /\ vid <= MaxVersions
    /\ objects' = StorePutObject(objects, bucket, key,
                    TimedMetadata(ObjectMetadata(bucket, key, 1, ETagOf(<<1>>), vid, FALSE),
                                  now, storageClass))
    /\ payloads' = BytePut(payloads, bucket, key, vid, <<1>>)
    /\ nextVersion' = IF vid = NullVersion THEN nextVersion ELSE nextVersion + 1
    /\ UNCHANGED <<extVars, catalogVars, workerVars, now, gateVars, lastOp, multipart, parts,
                   versioning, staged, keyLocks, pc, req, nextUpload>>

\* A second passes (at most one after a whole number of days); a day passes.
ClockSecond ==
    /\ now % DaySeconds = 0
    /\ now' = now + 1
    /\ UNCHANGED <<extVars, catalogVars, workerVars, gateVars, lastOp, metaVars, byteVars, taskVars>>

ClockDay ==
    /\ now \div DaySeconds < MaxTime
    /\ now' = now + DaySeconds
    /\ UNCHANGED <<extVars, catalogVars, workerVars, gateVars, lastOp, metaVars, byteVars, taskVars>>


(***************************************************************************)
(* Expiration rules under the retention gate (specification SpecExpiration)*)
(***************************************************************************)
\* the worker's buckets exist before the clock of the scenario starts
LifecycleCreateBucket(bucket) == now = 0 /\ CreateBucket(bucket)

ExpirationRules ==
    { LifecycleRule(ExpirationID, RulePrefix, st, Expiration(1), <<>>, NoNoncurrent) :
        st \in {"Enabled", "Disabled"} }

\* retainUntil values of the scenario: the first second of the second day,
\* and a time the clock does not reach
LifecycleRetainTimes == { DaySeconds + 1, (MaxTime + 1) * DaySeconds }

NextExpiration ==
    \/ \E b \in Buckets : LifecycleCreateBucket(b)
    \/ \E b \in Buckets, rule \in ExpirationRules : AddRule(b, rule)
    \/ \E b \in Buckets, k \in LifeKeys : TimedPutObject(b, k, "STANDARD")
    \/ \E b \in Buckets : EnableObjectLock(b, "GOVERNANCE")
    \/ \E b \in Buckets, k \in Keys, r \in LifecycleRetainTimes :
          SetRetention(b, k, "GOVERNANCE", r)
    \/ \E b \in Buckets, k \in Keys, st \in {"ON", "OFF"} : SetLegalHold(b, k, st)
    \/ ClockSecond
    \/ ClockDay
    \/ LifecyclePass

SpecExpiration == Init /\ [][NextExpiration]_vars

\* the objects of the bucket on which the delete gate is closed
Protected(bucket) ==
    { r \in objects : r.v.Bucket = bucket /\ CheckRetention(bucket, r.v.Key) # "" }

EnabledRules(bucket) ==
    IF ~BoltHas(buckets, bucket) THEN {}
    ELSE { r.v : r \in { q \in rules : q.k = bucket \o <<UNDERSCORE>> \o q.v.ID
                                       /\ q.v.Status = "Enabled" } }

\* C23: after a lifecycle pass over a bucket with an enabled rule (prefix P,
\* expiration.days = D), no object is stored whose key starts with P, for
\* which now >= lastModified + D days held at the pass, and on which the
\* delete gate was open.
C23_ExpiredAllDeleted ==
    [][LifecyclePass
         => \A b \in Buckets : \A rule \in EnabledRules(b) :
               (rule.Expiration.ok /\ rule.Expiration.Days > 0)
                 => \A r \in objects :
                       ( /\ r.v.Bucket = b
                         /\ HasPrefix(r.v.Key, rule.Prefix)
                         /\ now >= r.v.LastModified + rule.Expiration.Days * DaySeconds
                         /\ CheckRetention(b, r.v.Key) = "" )
                         => ~StoreHasObject(objects', b, r.v.Key, NullVersion)]_vars


(***************************************************************************)
(* Transition rules (specification SpecTransition)                         *)
(***************************************************************************)
TransitionRules ==
    { LifecycleRule(TransitionID, RulePrefix, "Enabled", NoExpiration,
                    <<Transition(1, "GLACIER")>>, NoNoncurrent) }

NextTransition ==
    \/ \E b \in Buckets : LifecycleCreateBucket(b)
    \/ \E b \in Buckets, rule \in TransitionRules : AddRule(b, rule)
    \/ \E b \in Buckets, k \in LifeKeys, c \in StorageClasses : TimedPutObject(b, k, c)
    \/ ClockSecond
    \/ ClockDay
    \/ LifecyclePass

SpecTransition == Init /\ [][NextTransition]_vars

\* the rule has an action for the record: the key starts with the rule's
\* prefix and the age of the object is at least the days of the action
Applies(rule, meta) ==
    /\ HasPrefix(meta.Key, rule.Prefix)
    /\ \/ /\ rule.Expiration.ok /\ rule.Expiration.Days > 0
          /\ now - meta.LastModified >= rule.Expiration.Days * DaySeconds
       \/ \E i \in 1..Len(rule.Transitions) :
             /\ rule.Transitions[i].Days > 0
             /\ now - meta.LastModified >= rule.Transitions[i].Days * DaySeconds

\* C24: a lifecycle pass leaves untouched every object to which no enabled
\* rule of its bucket applies (key outside the rule's prefix, or age below
\* the rule's days): its record is the same after the pass and the pass
\* has issued no delete and no copy on its key.
C24_OnlyMatchingTouched ==
    [][LifecyclePass
         => \A b \in Buckets : \A r \in objects :
               (r.v.Bucket = b /\ \A rule \in EnabledRules(b) : ~Applies(rule, r.v))
                 => /\ r \in objects'
                    /\ \A o \in pass'.ops : o.key # r.v.Key]_vars


\* C25: after a lifecycle pass over a bucket with an enabled rule carrying
\* Transition{days = D, storageClass = S}, every object whose key starts
\* with the rule's prefix and for which now >= lastModified + D days held
\* at the pass is stored with storageClass = S.
C25_TransitionSetsClass ==
    [][LifecyclePass
         => \A b \in Buckets : \A rule \in EnabledRules(b) :
               \A i \in 1..Len(rule.Transitions) : \A r \in objects :
                  ( /\ r.v.Bucket = b
                    /\ HasPrefix(r.v.Key, rule.Prefix)
                    /\ rule.Transitions[i].Days > 0
                    /\ now >= r.v.LastModified + rule.Transitions[i].Days * DaySeconds )
                    => /\ StoreHasObject(objects', b, r.v.Key, NullVersion)
                       /\ StoreGetObject(objects', b, r.v.Key, NullVersion).StorageClass
                             = rule.Transitions[i].StorageClass]_vars

\* C26: when the pass before has copied an object for a rule and the
\* record that copy wrote is still the stored one, the next pass issues no
\* copy on that object for that rule.
C26_TransitionIdempotent ==
    [][LifecyclePass
         => \A o \in pass.ops : \A r \in objects :
               ( /\ o.op = "CopyObject"
                 /\ r.v.Key = o.key
                 /\ r.v.LastModified = o.at )
                 => ~\E o2 \in pass'.ops :
                        o2.op = "CopyObject" /\ o2.key = o.key /\ o2.rule = o.rule]_vars


(***************************************************************************)
(* Noncurrent-version rules on a versioned bucket (specification           *)
(* SpecNoncurrent)                                                         *)
(***************************************************************************)
NoncurrentRules ==
    { LifecycleRule(NoncurrentID, RulePrefix, "Enabled", NoExpiration, <<>>,
                    NoncurrentVersionExpiration(1)) }

NextNoncurrent ==
    \/ \E b \in Buckets : LifecycleCreateBucket(b)
    \/ \E b \in Buckets : PutBucketVersioning(b, "Enabled")
    \/ \E b \in Buckets, rule \in NoncurrentRules : AddRule(b, rule)
    \/ \E b \in Buckets, k \in LifeKeys : TimedPutObject(b, k, "STANDARD")
    \/ ClockSecond
    \/ ClockDay
    \/ LifecyclePass

SpecNoncurrent == Init /\ [][NextNoncurrent]_vars

\* The versions of (bucket, key) the byte store holds that are not the
\* latest one.  Each of them stopped being current no later than the write
\* of the latest version, whose time the latest record carries.
NoncurrentVersions(bucket, key) ==
    IF ~StoreHasObject(objects, bucket, key, NullVersion) THEN {}
    ELSE { v \in StoredVersions(bucket, key) :
             v # StoreGetObject(objects, bucket, key, NullVersion).VersionID }

\* C27: after a lifecycle pass over a bucket with an enabled rule having
\* NoncurrentVersionExpiration{noncurrentDays = N}, no version is stored
\* that was non-latest for more than N days at the pass, under a key with
\* the rule's prefix, with the delete gate open.
C27_NoncurrentExpired ==
    [][LifecyclePass
         => \A b \in Buckets : \A rule \in EnabledRules(b) :
               (rule.NoncurrentVersionExpiration.ok
                  /\ rule.NoncurrentVersionExpiration.NoncurrentDays > 0)
                 => \A k \in LifeKeys : \A v \in NoncurrentVersions(b, k) :
                       ( /\ HasPrefix(k, rule.Prefix)
                         /\ now - StoreGetObject(objects, b, k, NullVersion).LastModified
                              > rule.NoncurrentVersionExpiration.NoncurrentDays * DaySeconds
                         /\ CheckRetention(b, k) = "" )
                         => ~ByteHas(payloads', b, k, v)]_vars


(***************************************************************************)
(* lifecycle.Processor: Start, Stop and the goroutines of run              *)
(* (specification SpecWorker).  A step of a goroutine is one receive or    *)
(* select on a channel, or the work up to the next one.                    *)
(***************************************************************************)
\* close of a closed channel: the panic ends the process
Crashed == \E c \in Callers : stopper[c] = "panic"

\* a call of Stop has returned
Stopped == \E c \in Callers : stopper[c] = "returned"

\* Processor.Start: wg.Add(1); go p.run()
Start(g) ==
    /\ ~Crashed
    /\ routines[g].pc = "idle"
    /\ wg' = wg + 1
    /\ routines' = [routines EXCEPT ![g] = [NoRoutine EXCEPT !.pc = "run",
                                                            !.restart = Stopped]]
    /\ UNCHANGED <<extVars, catalogVars, rules, pass, stopCh, stopper, now, gateVars, lastOp,
                   metaVars, byteVars, taskVars>>

\* Processor.Stop, first statement: close(p.stopCh)
StopClose(c) ==
    /\ ~Crashed
    /\ stopper[c] = "idle"
    /\ stopCh' = "closed"
    /\ stopper' = [stopper EXCEPT ![c] = IF stopCh = "closed" THEN "panic" ELSE "wait"]
    /\ UNCHANGED <<extVars, catalogVars, rules, pass, wg, routines, now, gateVars, lastOp,
                   metaVars, byteVars, taskVars>>

\* Processor.Stop, second statement: p.wg.Wait() returns at counter 0
StopReturn(c) ==
    /\ ~Crashed
    /\ stopper[c] = "wait"
    /\ wg = 0
    /\ stopper' = [stopper EXCEPT ![c] = "returned"]
    /\ UNCHANGED <<extVars, catalogVars, rules, pass, stopCh, wg, routines, now, gateVars,
                   lastOp, metaVars, byteVars, taskVars>>

\* the ticker of a running goroutine sends on ticker.C (capacity 1)
TickerFire(g) ==
    /\ ~Crashed
    /\ routines[g].pc \notin {"idle", "done"}
    /\ ~routines[g].tick
    /\ routines' = [routines EXCEPT ![g].tick = TRUE]
    /\ UNCHANGED <<extVars, catalogVars, rules, pass, stopCh, wg, stopper, now, gateVars,
                   lastOp, metaVars, byteVars, taskVars>>

\* run: "Run immediately on start" -- processBuckets up to its loop
RunImmediately(g) ==
    /\ ~Crashed
    /\ routines[g].pc = "run"
    /\ routines' = [routines EXCEPT ![g].pc = "bucket",
                                    ![g].buckets = StoreListBuckets(buckets)]
    /\ UNCHANGED <<extVars, catalogVars, rules, pass, stopCh, wg, stopper, now, gateVars,
                   lastOp, metaVars, byteVars, taskVars>>

\* run: select, case <-ticker.C -- processBuckets up to its loop
SelectTick(g) ==
    /\ ~Crashed
    /\ routines[g].pc = "select"
    /\ routines[g].tick
    /\ routines' = [routines EXCEPT ![g].pc = "bucket", ![g].tick = FALSE,
                                    ![g].buckets = StoreListBuckets(buckets)]
    /\ UNCHANGED <<extVars, catalogVars, rules, pass, stopCh, wg, stopper, now, gateVars,
                   lastOp, metaVars, byteVars, taskVars>>

\* run: select, case <-p.stopCh -- return; deferred ticker.Stop and wg.Done
SelectStop(g) ==
    /\ ~Crashed
    /\ routines[g].pc = "select"
    /\ stopCh = "closed"
    /\ routines' = [routines EXCEPT ![g].pc = "done", ![g].tick = FALSE]
    /\ wg' = wg - 1
    /\ UNCHANGED <<extVars, catalogVars, rules, pass, stopCh, stopper, now, gateVars, lastOp,
                   metaVars, byteVars, taskVars>>

\* processBuckets: one round of the loop over the buckets.  The select
\* takes the stopCh case when the channel is closed, the default otherwise;
\* the default enters processBucket, which loads the rules and returns at
\* once when there are none.
NextBucket(g) ==
    LET r == routines[g]
        rs == StoreGetLifecycleRules(rules, Head(r.buckets))
    IN
    /\ ~Crashed
    /\ r.pc = "bucket"
    /\ routines' =
          IF r.buckets = <<>> \/ stopCh = "closed"
            THEN [routines EXCEPT ![g].pc = "select", ![g].buckets = <<>>]
          ELSE IF Len(rs) = 0
            THEN [routines EXCEPT ![g].buckets = Tail(r.buckets)]
          ELSE [routines EXCEPT ![g].pc = "rule", ![g].bucket = Head(r.buckets),
                                ![g].rules = rs, ![g].buckets = Tail(r.buckets)]
    /\ UNCHANGED <<extVars, catalogVars, rules, pass, stopCh, wg, stopper, now, gateVars,
                   lastOp, metaVars, byteVars, taskVars>>

\* processBucket: one round of the loop over the rules.  A rule that is not
\* Enabled is skipped; the select takes the stopCh case when the channel is
\* closed and processRule otherwise.
NextRule(g) ==
    LET r == routines[g]
        runs == r.rules # <<>> /\ Head(r.rules).Status = "Enabled" /\ stopCh # "closed"
        w == IF runs THEN processRule(World(objects, payloads, nextVersion, {}),
                                      r.bucket, Head(r.rules))
                     ELSE World(objects, payloads, nextVersion, {})
    IN
    /\ ~Crashed
    /\ r.pc = "rule"
    /\ routines' =
          IF r.rules = <<>>
            THEN [routines EXCEPT ![g].pc = "bucket", ![g].bucket = <<>>]
          ELSE IF Head(r.rules).Status # "Enabled"
            THEN [routines EXCEPT ![g].rules = Tail(r.rules)]
          ELSE IF stopCh = "closed"
            THEN [routines EXCEPT ![g].pc = "bucket", ![g].bucket = <<>>,
                                  ![g].rules = <<>>]
          ELSE [routines EXCEPT ![g].rules = Tail(r.rules), ![g].processed = TRUE]
    /\ objects' = w.objects
    /\ payloads' = w.payloads
    /\ nextVersion' = w.nextVersion
    /\ UNCHANGED <<extVars, catalogVars, rules, pass, stopCh, wg, stopper, now, gateVars,
                   lastOp, multipart, parts, versioning, staged, keyLocks, pc, req,
                   nextUpload>>

NextWorker ==
    \/ \E b \in Buckets : LifecycleCreateBucket(b)
    \/ \E b \in Buckets, rule \in ExpirationRules : AddRule(b, rule)
    \/ \E g \in Routines : Start(g)
    \/ \E c \in Callers : StopClose(c)
    \/ \E c \in Callers : StopReturn(c)
    \/ \E g \in Routines : TickerFire(g)
    \/ \E g \in Routines : RunImmediately(g)
    \/ \E g \in Routines : SelectTick(g)
    \/ \E g \in Routines : SelectStop(g)
    \/ \E g \in Routines : NextBucket(g)
    \/ \E g \in Routines : NextRule(g)

SpecWorker == Init /\ [][NextWorker]_vars


\* C28: a call of Stop returns: no call of Stop is ended by a panic instead
\* (the claim also has the worker start no further bucket or rule and its
\* goroutine terminate, which hold once stopCh is closed).
C28_StopReturns == \A c \in Callers : stopper[c] # "panic"

\* the goroutine is inside processBucket(bucket)
Scanning(g, bucket) == routines[g].pc = "rule" /\ routines[g].bucket = bucket

\* C29: at no time are two goroutines of the worker inside processBucket
\* for the same bucket.
C29_NoConcurrentScan ==
    \A g1 \in Routines, g2 \in Routines, b \in Buckets :
        g1 # g2 => ~(Scanning(g1, b) /\ Scanning(g2, b))

\* C30: a goroutine launched by a Start that followed the return of a Stop
\* keeps running its passes: it has not returned from run.
C30_RestartedKeepsRunning ==
    \A g \in Routines : routines[g].restart => routines[g].pc # "done"


(***************************************************************************)
(* lifecycle.Processor: AddRule and RemoveRule (specification SpecRules)   *)
(***************************************************************************)
\* BBoltStore.DeleteLifecycleRule: lifecycle.Delete(bucket+"_"+ruleID)
StoreDeleteLifecycleRule(rs, bucket, ruleID) ==
    BoltDelete(rs, bucket \o <<UNDERSCORE>> \o ruleID)

RECURSIVE RulesWithout(_, _)
\* the loop of RemoveRule: the rules whose ID is not ruleID, in order
RulesWithout(rs, ruleID) ==
    IF rs = <<>> THEN <<>>
    ELSE IF Head(rs).ID # ruleID THEN <<Head(rs)>> \o RulesWithout(Tail(rs), ruleID)
    ELSE RulesWithout(Tail(rs), ruleID)

\* What Processor.RemoveRule leaves in the store: nothing is written when
\* no other rule is left, and the first of the other rules is put again
\* otherwise.
RemoveRuleStore(rs, bucket, ruleID) ==
    LET newRules == RulesWithout(StoreGetLifecycleRules(rs, bucket), ruleID) IN
    IF Len(newRules) = 0 THEN rs
    ELSE StorePutLifecycleRule(rs, bucket, newRules[1])

\* Processor.RemoveRule; every path of it returns nil on a store that works
RemoveRule(bucket, ruleID) ==
    /\ rules' = RemoveRuleStore(rules, bucket, ruleID)
    /\ lastOp' = Op("RemoveRule", "")
    /\ UNCHANGED <<extVars, catalogVars, pass, schedVars, now, gateVars, metaVars, byteVars,
                   taskVars>>

RuleIDs == {ExpirationID, NoncurrentID, TransitionID}

NextRules ==
    \/ \E b \in ListedBuckets,
          rule \in ExpirationRules \cup TransitionRules \cup NoncurrentRules :
          AddRule(b, rule)
    \/ \E b \in ListedBuckets, id \in RuleIDs : RemoveRule(b, id)

SpecRules == Init /\ [][NextRules]_vars

\* the rules of the bucket, as GetRules returns them
RuleSet(rs, bucket) ==
    LET got == StoreGetLifecycleRules(rs, bucket) IN { got[i] : i \in 1..Len(got) }

\* C31: after RemoveRule(bucket, ruleID) has returned success, the rules of
\* the bucket contain no rule with that ID, and every other rule of the
\* bucket is the rule it was.
C31_RemoveRuleRemoves ==
    [][\A b \in ListedBuckets, id \in RuleIDs :
          (RemoveRule(b, id) /\ lastOp'.err = "")
            => /\ \A r \in RuleSet(rules', b) : r.ID # id
               /\ \A r \in RuleSet(rules, b) : r.ID # id => r \in RuleSet(rules', b)]_vars


(***************************************************************************)
(* iam.Manager: policies attached to users and groups (specification       *)
(* SpecIam).  Every method holds m.mu for its whole body.                  *)
(***************************************************************************)
\* the longest PolicyArns list of the model
MaxArns == 2

IamTenant == "t1"

PolicyNames == {"read", "write"}

IamActions == {"s3:GetObject", "s3:PutObject"}

\* fmt.Sprintf("arn:openendpoint:%s:%s:policy/%s", tenantID, "default", name)
PolicyArn(tenantID, name) ==
    <<"arn:openendpoint:", tenantID, ":", "default", ":policy/", name>>

\* a document with one Allow statement for the action on every resource
PolicyDoc(action) ==
    <<[Effect |-> "Allow", Actions |-> <<action>>, Resources |-> <<"*">>]>>

\* the frame of the requests on one manager
IamFrame == UNCHANGED <<coreVars, tenants, configs, repl, backup, hub, quota, pool>>

IamReturn(m, op, err) == [m EXCEPT !.last = [op |-> op, err |-> err, allowed |-> FALSE]]

\* Manager.CreateUser: a user with a fresh ID and empty lists
CreateUser(id) ==
    /\ ~iam.users[id].ok
    /\ iam' = IamReturn([iam EXCEPT !.users[id] = [NoUser EXCEPT !.ok = TRUE]],
                        "CreateUser", "")
    /\ IamFrame

\* Manager.CreateGroup
CreateGroup(id) ==
    /\ ~iam.groups[id].ok
    /\ iam' = IamReturn([iam EXCEPT !.groups[id] = [NoGroup EXCEPT !.ok = TRUE]],
                        "CreateGroup", "")
    /\ IamFrame

\* Manager.AddUserToGroup
AddUserToGroup(userID, groupID) ==
    LET group == iam.groups[groupID]
        user == iam.users[userID]
        err == IF ~group.ok THEN "group not found"
               ELSE IF ~user.ok THEN "user not found"
               ELSE IF \E i \in 1..Len(group.Members) : group.Members[i] = userID
                 THEN "user already in group"
               ELSE ""
    IN
    /\ iam' = IamReturn(IF err # "" THEN iam
                        ELSE [iam EXCEPT !.groups[groupID].Members = Append(@, userID),
                                         !.users[userID].Groups = Append(@, groupID)],
                        "AddUserToGroup", err)
    /\ IamFrame

\* Manager.CreatePolicy: a policy with a fresh ID and the ARN of its name
CreatePolicy(id, tenantID, name, doc) ==
    /\ ~iam.policies[id].ok
    /\ iam' = IamReturn([iam EXCEPT !.policies[id] =
                            [ok |-> TRUE, Arn |-> PolicyArn(tenantID, name),
                             Document |-> doc, IsAttached |-> FALSE]],
                        "CreatePolicy", "")
    /\ IamFrame

\* Manager.AttachPolicy: IsAttached is set before the entity is looked up
AttachPolicy(policyID, entityID, entityType) ==
    LET policy == iam.policies[policyID]
        marked == [iam EXCEPT !.policies[policyID].IsAttached = TRUE]
    IN
    /\ entityType = "user" => Len(iam.users[entityID].PolicyArns) < MaxArns
    /\ entityType = "group" => Len(iam.groups[entityID].PolicyArns) < MaxArns
    /\ iam' =
          IF ~policy.ok THEN IamReturn(iam, "AttachPolicy", "policy not found")
          ELSE IF entityType = "user"
            THEN IF ~iam.users[entityID].ok
                   THEN IamReturn(marked, "AttachPolicy", "user not found")
                   ELSE IamReturn([marked EXCEPT !.users[entityID].PolicyArns =
                                                    Append(@, policy.Arn)],
                                  "AttachPolicy", "")
          ELSE IF entityType = "group"
            THEN IF ~iam.groups[entityID].ok
                   THEN IamReturn(marked, "AttachPolicy", "group not found")
                   ELSE IamReturn([marked EXCEPT !.groups[entityID].PolicyArns =
                                                    Append(@, policy.Arn)],
                                  "AttachPolicy", "")
          ELSE IamReturn(marked, "AttachPolicy", "invalid entity type")
    /\ IamFrame

RECURSIVE ArnsWithout(_, _)
\* the loop of DetachPolicy: the entries of the list that differ from the
\* string they are compared with
ArnsWithout(arns, str) ==
    IF arns = <<>> THEN <<>>
    ELSE IF Head(arns) # str THEN <<Head(arns)>> \o ArnsWithout(Tail(arns), str)
    ELSE ArnsWithout(Tail(arns), str)

\* Manager.DetachPolicy: each entry of PolicyArns is compared with policyID
DetachPolicy(policyID, entityID, entityType) ==
    /\ iam' =
          IF entityType = "user"
            THEN IF ~iam.users[entityID].ok
                   THEN IamReturn(iam, "DetachPolicy", "user not found")
                   ELSE IamReturn([iam EXCEPT !.users[entityID].PolicyArns =
                                                 ArnsWithout(@, policyID)],
                                  "DetachPolicy", "")
          ELSE IF entityType = "group"
            THEN IF ~iam.groups[entityID].ok
                   THEN IamReturn(iam, "DetachPolicy", "group not found")
                   ELSE IamReturn([iam EXCEPT !.groups[entityID].PolicyArns =
                                                 ArnsWithout(@, policyID)],
                                  "DetachPolicy", "")
          ELSE IamReturn(iam, "DetachPolicy", "invalid entity type")
    /\ IamFrame

\* Manager.evaluateStatement
evaluateStatement(statements, action, resource) ==
    \E i \in 1..Len(statements) :
        LET stmt == statements[i] IN
        /\ stmt.Effect = "Allow"
        /\ \E a \in 1..Len(stmt.Actions) :
              stmt.Actions[a] = action \/ stmt.Actions[a] = "*"
        /\ \E r \in 1..Len(stmt.Resources) :
              stmt.Resources[r] = resource \/ stmt.Resources[r] = "*"

RECURSIVE GroupArns(_, _)
\* the PolicyArns of the groups of a user that exist, appended in order
GroupArns(m, groupIDs) ==
    IF groupIDs = <<>> THEN <<>>
    ELSE (IF m.groups[Head(groupIDs)].ok THEN m.groups[Head(groupIDs)].PolicyArns
                                         ELSE <<>>)
            \o GroupArns(m, Tail(groupIDs))

\* what Manager.EvaluatePolicy returns for a user that exists (the model's
\* users have no inline policy)
EvaluateAllowed(m, userID, action, resource) ==
    LET policyArns == m.users[userID].PolicyArns \o GroupArns(m, m.users[userID].Groups)
    IN  \E i \in 1..Len(policyArns) : \E p \in PolicyIDs :
            /\ m.policies[p].ok
            /\ m.policies[p].Arn = policyArns[i]
            /\ evaluateStatement(m.policies[p].Document, action, resource)

\* Manager.EvaluatePolicy
EvaluatePolicy(tenantID, userID, action, resource) ==
    /\ iam' = IF ~iam.users[userID].ok
                THEN [iam EXCEPT !.last = [op |-> "EvaluatePolicy",
                                           err |-> "user not found", allowed |-> FALSE]]
                ELSE [iam EXCEPT !.last =
                        [op |-> "EvaluatePolicy", err |-> "",
                         allowed |-> EvaluateAllowed(iam, userID, action, resource)]]
    /\ IamFrame

EntityTypes == {"user", "group", "role"}

\* the IDs an entity of the type may have
EntityIDs(entityType) == IF entityType = "group" THEN GroupIDs ELSE UserIDs

NextIam ==
    \/ \E u \in UserIDs : CreateUser(u)
    \/ \E g \in GroupIDs : CreateGroup(g)
    \/ \E u \in UserIDs, g \in GroupIDs : AddUserToGroup(u, g)
    \/ \E p \in PolicyIDs, name \in PolicyNames, a \in IamActions :
          CreatePolicy(p, IamTenant, name, PolicyDoc(a))
    \/ \E p \in PolicyIDs, t \in EntityTypes : \E e \in EntityIDs(t) : AttachPolicy(p, e, t)
    \/ \E p \in PolicyIDs, t \in EntityTypes : \E e \in EntityIDs(t) : DetachPolicy(p, e, t)
    \/ \E u \in UserIDs, a \in IamActions : EvaluatePolicy(IamTenant, u, a, "bucket/key")

SpecIam == Init /\ [][NextIam]_vars

\* the PolicyArns of the entity
EntityArns(m, entityID, entityType) ==
    IF entityType = "group" THEN m.groups[entityID].PolicyArns
                            ELSE m.users[entityID].PolicyArns

\* C32: after DetachPolicy(policyID, entityID, entityType) has returned
\* success for a policy that exists, the entity's PolicyArns holds the ARN
\* of that policy no longer, and a user is no longer allowed an action that
\* only this attachment allowed: one that was allowed before the call and
\* is not allowed once the ARN is taken from the entity's list.
C32_DetachRemovesArn ==
    [][\A p \in PolicyIDs, t \in {"user", "group"} : \A e \in EntityIDs(t) :
          (DetachPolicy(p, e, t) /\ iam'.last.err = "" /\ iam.policies[p].ok)
            => LET arn == iam.policies[p].Arn
                   arns == EntityArns(iam', e, t)
                   without == IF t = "group"
                                THEN [iam EXCEPT !.groups[e].PolicyArns = ArnsWithout(@, arn)]
                                ELSE [iam EXCEPT !.users[e].PolicyArns = ArnsWithout(@, arn)]
               IN
               /\ \A i \in 1..Len(arns) : arns[i] # arn
               /\ \A u \in UserIDs, a \in IamActions :
                     ( /\ iam.users[u].ok
                       /\ EvaluateAllowed(iam, u, a, "bucket/key")
                       /\ ~EvaluateAllowed(without, u, a, "bucket/key") )
                       => ~EvaluateAllowed(iam', u, a, "bucket/key")]_vars


(***************************************************************************)
(* tenant.Manager (specification SpecTenants).  Every method holds m.mu    *)
(* for its whole body.                                                     *)
(***************************************************************************)
TenantNames == {"acme", "bolt"}

TenantRegions == {"eu", "us"}

TenantFrame == UNCHANGED <<coreVars, iam, configs, repl, backup, hub, quota, pool>>

\* Manager.CreateTenant: refused when a tenant that is not deleted has the
\* name; otherwise a tenant with a fresh ID, active
CreateTenant(id, name, region) ==
    /\ ~tenants[id].ok
    /\ tenants' =
          IF \E t \in TenantIDs : /\ tenants[t].ok
                                  /\ tenants[t].Name = name
                                  /\ tenants[t].Status # "deleted"
            THEN tenants
            ELSE [tenants EXCEPT ![id] = [ok |-> TRUE, Name |-> name, Region |-> region,
                                          Status |-> "active"]]
    /\ TenantFrame

\* Manager.UpdateTenant: the fields of updates that are set are copied
UpdateTenant(tenantID, updates) ==
    /\ tenants' =
          IF ~tenants[tenantID].ok THEN tenants
          ELSE [tenants EXCEPT
                  ![tenantID].Name = IF updates.Name # "" THEN updates.Name ELSE @,
                  ![tenantID].Region = IF updates.Region # "" THEN updates.Region ELSE @]
    /\ TenantFrame

\* Manager.SuspendTenant, ActivateTenant, DeleteTenant: Status is assigned
SetTenantStatus(tenantID, status) ==
    /\ tenants' = IF ~tenants[tenantID].ok THEN tenants
                  ELSE [tenants EXCEPT ![tenantID].Status = status]
    /\ TenantFrame

SuspendTenant(tenantID) == SetTenantStatus(tenantID, "suspended")

ActivateTenant(tenantID) == SetTenantStatus(tenantID, "active")

DeleteTenant(tenantID) == SetTenantStatus(tenantID, "deleted")

NextTenants ==
    \/ \E t \in TenantIDs, n \in TenantNames, r \in TenantRegions : CreateTenant(t, n, r)
    \/ \E t \in TenantIDs, n \in TenantNames \cup {""}, r \in TenantRegions \cup {""} :
          UpdateTenant(t, [Name |-> n, Region |-> r])
    \/ \E t \in TenantIDs : SuspendTenant(t)
    \/ \E t \in TenantIDs : ActivateTenant(t)
    \/ \E t \in TenantIDs : DeleteTenant(t)

SpecTenants == Init /\ [][NextTenants]_vars

\* C33: no two tenants whose status is not deleted have the same name.
C33_UniqueTenantNames ==
    \A t1 \in TenantIDs, t2 \in TenantIDs :
        ( /\ t1 # t2
          /\ tenants[t1].ok /\ tenants[t1].Status # "deleted"
          /\ tenants[t2].ok /\ tenants[t2].Status # "deleted" )
          => tenants[t1].Name # tenants[t2].Name


(***************************************************************************)
(* BBoltStore: the name-spaces "metrics" and "analytics" (specification    *)
(* SpecConfigs).  Every operation is one bbolt transaction.                *)
(***************************************************************************)
COLON == 58

\* configuration ids: "1" and "2"
ConfigIDs == { <<49>>, <<50>> }

\* key := bucket + ":" + id
ConfigKey(bucket, id) == bucket \o <<COLON>> \o id

MetricsConfiguration(id) == [ID |-> id, Enabled |-> TRUE]

AnalyticsConfiguration(id) == [ID |-> id, Enabled |-> TRUE]

RECURSIVE ScanFrom(_, _)
\* for k, v := cursor.Seek(prefix); k != nil && string(k) >= prefix; Next():
\* the values appended until the condition fails
ScanFrom(cursor, prefix) ==
    IF cursor = <<>> THEN <<>>
    ELSE IF BytesLess(Head(cursor).k, prefix) THEN <<>>
    ELSE <<Head(cursor).v>> \o ScanFrom(Tail(cursor), prefix)

\* the scan of BBoltStore.ListBucketMetrics and BBoltStore.ListBucketAnalytics
ListConfigs(bkt, bucket) ==
    ScanFrom(CursorFrom(bkt, bucket \o <<COLON>>), bucket \o <<COLON>>)

ConfigFrame == UNCHANGED <<coreVars, iam, tenants, repl, backup, hub, quota, pool>>

PutBucketMetrics(bucket, id) ==
    /\ configs' = [configs EXCEPT
                     !.metrics = BoltPut(@, ConfigKey(bucket, id), MetricsConfiguration(id)),
                     !.last = [op |-> "PutBucketMetrics"]]
    /\ ConfigFrame

DeleteBucketMetrics(bucket, id) ==
    /\ configs' = [configs EXCEPT !.metrics = BoltDelete(@, ConfigKey(bucket, id)),
                                  !.last = [op |-> "DeleteBucketMetrics"]]
    /\ ConfigFrame

ListBucketMetrics(bucket) ==
    /\ configs' = [configs EXCEPT
                     !.last = [op |-> "ListBucketMetrics", bucket |-> bucket,
                               configs |-> ListConfigs(configs.metrics, bucket)]]
    /\ ConfigFrame

PutBucketAnalytics(bucket, id) ==
    /\ configs' = [configs EXCEPT
                     !.analytics = BoltPut(@, ConfigKey(bucket, id), AnalyticsConfiguration(id)),
                     !.last = [op |-> "PutBucketAnalytics"]]
    /\ ConfigFrame

DeleteBucketAnalytics(bucket, id) ==
    /\ configs' = [configs EXCEPT !.analytics = BoltDelete(@, ConfigKey(bucket, id)),
                                  !.last = [op |-> "DeleteBucketAnalytics"]]
    /\ ConfigFrame

ListBucketAnalytics(bucket) ==
    /\ configs' = [configs EXCEPT
                     !.last = [op |-> "ListBucketAnalytics", bucket |-> bucket,
                               configs |-> ListConfigs(configs.analytics, bucket)]]
    /\ ConfigFrame

NextConfigs ==
    \/ \E b \in ListedBuckets, id \in ConfigIDs : PutBucketMetrics(b, id)
    \/ \E b \in ListedBuckets, id \in ConfigIDs : DeleteBucketMetrics(b, id)
    \/ \E b \in ListedBuckets : ListBucketMetrics(b)
    \/ \E b \in ListedBuckets, id \in ConfigIDs : PutBucketAnalytics(b, id)
    \/ \E b \in ListedBuckets, id \in ConfigIDs : DeleteBucketAnalytics(b, id)
    \/ \E b \in ListedBuckets : ListBucketAnalytics(b)

SpecConfigs == Init /\ [][NextConfigs]_vars

\* the configurations stored under the bucket: a key is bucket + ":" + id
StoredConfigs(bkt, bucket) ==
    { r \in bkt : \E id \in ConfigIDs : r.k = ConfigKey(bucket, id) }

\* C34: ListBucketMetrics(bucket) and ListBucketAnalytics(bucket) return as
\* many configurations as are stored under the bucket, and each of them is
\* one stored under the bucket.
C34_ListConfigsOfBucket ==
    [][\A b \in ListedBuckets :
          /\ ListBucketMetrics(b)
               => LET got == configs'.last.configs
                      stored == StoredConfigs(configs.metrics, b)
                  IN  /\ Len(got) = Cardinality(stored)
                      /\ \A i \in 1..Len(got) : \E r \in stored : r.v = got[i]
          /\ ListBucketAnalytics(b)
               => LET got == configs'.last.configs
                      stored == StoredConfigs(configs.analytics, b)
                  IN  /\ Len(got) = Cardinality(stored)
                      /\ \A i \in 1..Len(got) : \E r \in stored : r.v = got[i]]_vars


(***************************************************************************)
(* cluster.Replicator (specification SpecReplication).  A call is the      *)
(* steps of its goroutines: the registration in pendingOps, one step per   *)
(* target node under the local mutex, and the part after wg.Wait().        *)
(***************************************************************************)
\* WriteQuorum without the majority: half of the replicas
WriteQuorum_Half(r) == r \div 2

WriteQuorum(r) == r \div 2 + 1

\* HashRing.GetNNodes(key, n): at most n distinct nodes of the ring
GetNNodes(n) == { ns \in SUBSET ClusterNodes : Cardinality(ns) <= n }

\* Replicator.GetTargetNodes
GetTargetNodes(r) == GetNNodes(r.replicationFactor)

ReplFrame == UNCHANGED <<coreVars, iam, tenants, configs, backup, hub, quota, pool>>

\* ReplicateWrite and ReplicateDelete up to the start of the goroutines
ReplicateBegin(id, operation) ==
    /\ repl.ops[id].pc = "idle"
    /\ \E targetNodes \in GetTargetNodes(repl) :
          repl' = [repl EXCEPT !.ops[id].pc = "running",
                               !.ops[id].Operation = operation,
                               !.ops[id].Status = "in_progress",
                               !.ops[id].TargetNodes = targetNodes,
                               !.pendingOps = @ \cup {id}]
    /\ ReplFrame

\* writeToNode and deleteFromNode return nil
writeToNode(op, nid) == "nil"

\* the goroutine of one target node
ReplicateNode(id, nid) ==
    /\ repl.ops[id].pc = "running"
    /\ nid \in repl.ops[id].TargetNodes \ repl.ops[id].done
    /\ LET err == writeToNode(repl.ops[id], nid)
       IN  repl' = [repl EXCEPT
                      !.ops[id].done = @ \cup {nid},
                      !.ops[id].successCount = IF err = "nil" THEN @ + 1 ELSE @,
                      !.ops[id].Replicas =
                          IF err = "nil" /\ repl.ops[id].Operation = "write"
                          THEN @ \cup {nid} ELSE @]
    /\ ReplFrame

\* ReplicateWrite after wg.Wait()
ReplicateWriteReturn(id) ==
    /\ repl.ops[id].pc = "running"
    /\ repl.ops[id].Operation = "write"
    /\ repl.ops[id].done = repl.ops[id].TargetNodes
    /\ repl' = IF repl.ops[id].successCount < WriteQuorum(repl.replicationFactor)
               THEN [repl EXCEPT !.ops[id].pc = "returned",
                                 !.ops[id].Status = "failed",
                                 !.ops[id].Error = "write quorum not met",
                                 !.ops[id].result = "write quorum not met"]
               ELSE [repl EXCEPT !.ops[id].pc = "returned",
                                 !.ops[id].Status = "complete",
                                 !.ops[id].result = "nil",
                                 !.pendingOps = @ \ {id},
                                 !.completedOps = @ \cup {id}]
    /\ ReplFrame

\* ReplicateDelete after wg.Wait()
ReplicateDeleteReturn(id) ==
    /\ repl.ops[id].pc = "running"
    /\ repl.ops[id].Operation = "delete"
    /\ repl.ops[id].done = repl.ops[id].TargetNodes
    /\ repl' = [repl EXCEPT !.ops[id].pc = "returned",
                            !.ops[id].Status = "complete",
                            !.ops[id].result = "nil",
                            !.pendingOps = @ \ {id},
                            !.completedOps = @ \cup {id}]
    /\ ReplFrame

SetReplicationFactor(rf) ==
    /\ rf # repl.replicationFactor
    /\ repl' = [repl EXCEPT !.replicationFactor = rf]
    /\ ReplFrame

NextReplication ==
    \/ \E id \in ReplOps, operation \in {"write", "delete"} : ReplicateBegin(id, operation)
    \/ \E id \in ReplOps, nid \in ClusterNodes : ReplicateNode(id, nid)
    \/ \E id \in ReplOps : ReplicateWriteReturn(id)
    \/ \E id \in ReplOps : ReplicateDeleteReturn(id)
    \/ \E rf \in ReplicationFactors : SetReplicationFactor(rf)

SpecReplication == Init /\ [][NextReplication]_vars

\* C35: ReplicateWrite returns nil with the operation complete only when
\* at least floor(rf/2)+1 target nodes acknowledged the write; otherwise the
\* operation is failed and an error is returned.
C35_WriteNeedsQuorum ==
    [][\A id \in ReplOps :
          ReplicateWriteReturn(id)
            => LET op == repl'.ops[id]
                   acks == Cardinality(op.Replicas)
                   rf == repl.replicationFactor
               IN  IF acks >= (rf \div 2) + 1
                   THEN op.result = "nil" /\ op.Status = "complete"
                   ELSE op.result # "nil" /\ op.Status = "failed"]_vars

\* a write that met the quorum has returned and one that did not has returned
C35_Witness ==
    /\ repl.ops["op1"].Operation = "write" /\ repl.ops["op1"].Status = "complete"
    /\ Cardinality(repl.ops["op1"].Replicas) = 2
    /\ repl.ops["op2"].Operation = "write" /\ repl.ops["op2"].Status = "failed"

\* C39: an operation whose ReplicateWrite or ReplicateDelete has returned is
\* not in pendingOps, and a completed one is in completedOps.
C39_ReturnedNotPending ==
    \A id \in ReplOps :
        repl.ops[id].pc = "returned"
          => /\ id \notin repl.pendingOps
             /\ repl.ops[id].Status = "complete" => id \in repl.completedOps


(***************************************************************************)
(* cluster.BackupManager (specification SpecBackup).  RunBackupJob is the  *)
(* steps between which CancelJob, RemoveTarget and the cancellation of the *)
(* context can happen: it holds m.mu only while it sets Status running.    *)
(***************************************************************************)
BackupFrame == UNCHANGED <<coreVars, iam, tenants, configs, repl, hub, quota, pool>>

AddTarget ==
    /\ ~backup.target
    /\ backup' = [backup EXCEPT !.target = TRUE]
    /\ BackupFrame

RemoveTarget ==
    /\ backup.target
    /\ backup' = [backup EXCEPT !.target = FALSE]
    /\ BackupFrame

CreateBackupJob ==
    /\ backup.target
    /\ backup.job = NoJob
    /\ backup' = [backup EXCEPT !.job.Status = "pending"]
    /\ BackupFrame

\* RunBackupJob under m.mu: the job is found and set running
RunBackupJob ==
    /\ backup.pc = "idle"
    /\ backup.job # NoJob
    /\ backup' = [backup EXCEPT !.pc = "target", !.job.Status = "running",
                                !.cancelled = FALSE]
    /\ BackupFrame

\* m.GetTarget(job.TargetID)
RunGetTarget ==
    /\ backup.pc = "target"
    /\ backup' = IF backup.target
                 THEN [backup EXCEPT !.pc = "loop", !.job.CompletedObjects = 0]
                 ELSE [backup EXCEPT !.pc = "idle", !.job.Status = "failed",
                                     !.job.Error = "target not found"]
    /\ BackupFrame

\* one turn of the loop of runS3Backup, or its end
runS3Backup ==
    /\ backup.pc = "loop"
    /\ backup' = IF backup.job.CompletedObjects < BackupObjects
                 THEN IF backup.ctx = "done"
                      THEN [backup EXCEPT !.pc = "err", !.job.Status = "cancelled"]
                      ELSE [backup EXCEPT !.job.CompletedObjects = @ + 1]
                 ELSE [backup EXCEPT !.pc = "ok"]
    /\ BackupFrame

\* RunBackupJob after the backup returned
RunBackupJobReturn ==
    /\ backup.pc \in {"ok", "err"}
    /\ backup' = IF backup.pc = "err"
                 THEN [backup EXCEPT !.pc = "idle", !.job.Status = "failed",
                                     !.job.Error = "context canceled"]
                 ELSE [backup EXCEPT !.pc = "idle", !.job.Status = "complete"]
    /\ BackupFrame

CancelJob ==
    /\ backup.job.Status = "running"
    /\ backup' = [backup EXCEPT !.job.Status = "cancelled",
                                !.cancelled = backup.pc # "idle"]
    /\ BackupFrame

\* the caller of RunBackupJob cancels its context; the next call gets a new one
ContextCancel ==
    /\ backup.pc # "idle"
    /\ backup.ctx = "live"
    /\ backup' = [backup EXCEPT !.ctx = "done"]
    /\ BackupFrame

ContextRenew ==
    /\ backup.pc = "idle"
    /\ backup.ctx = "done"
    /\ backup' = [backup EXCEPT !.ctx = "live"]
    /\ BackupFrame

NextBackup ==
    \/ AddTarget
    \/ RemoveTarget
    \/ CreateBackupJob
    \/ RunBackupJob
    \/ RunGetTarget
    \/ runS3Backup
    \/ RunBackupJobReturn
    \/ CancelJob
    \/ ContextCancel
    \/ ContextRenew

SpecBackup == Init /\ [][NextBackup]_vars

\* C36: once CancelJob has returned nil during a call of RunBackupJob, the
\* status of the job is cancelled during the rest of the call and after it.
C36_CancelledStays ==
    backup.cancelled => backup.job.Status = "cancelled"


(***************************************************************************)
(* websocket.Hub (specification SpecHub).  Hub.Run is one goroutine: each  *)
(* case of its select is one action, and a send on the unbuffered register *)
(* or unregister channel is the same step as its receive.  readPump and    *)
(* writePump are one goroutine each per client.                            *)
(***************************************************************************)
HubFrame == UNCHANGED <<coreVars, iam, tenants, configs, repl, backup, quota, pool>>

\* close(ch)
CloseChan(conn) ==
    [conn EXCEPT !.closed = TRUE, !.closes = IF @ < 2 THEN @ + 1 ELSE @]

\* ServeWS: h.register <- client received by Run, then both pumps start
ServeWS(c) ==
    /\ hub.conns[c] = NoClient
    /\ hub' = [hub EXCEPT !.clients = @ \cup {c},
                          !.conns[c].readPump = "read",
                          !.conns[c].writePump = "run"]
    /\ HubFrame

\* Run, case client := <-h.unregister, sent by the defer of readPump
RunUnregister(c) ==
    /\ hub.conns[c].readPump = "unregister"
    /\ hub' = [hub EXCEPT
                 !.clients = @ \ {c},
                 !.conns[c] = IF c \in hub.clients
                              THEN [CloseChan(@) EXCEPT !.readPump = "done"]
                              ELSE [@ EXCEPT !.readPump = "done"]]
    /\ HubFrame

\* select { case client.send <- message: default: close; delete }
BroadcastTo(h, c) ==
    IF h.conns[c].send < SendBuffer
    THEN [h EXCEPT !.conns[c].send = @ + 1]
    ELSE [h EXCEPT !.conns[c] = CloseChan(@), !.clients = @ \ {c}]

RECURSIVE BroadcastAll(_, _)
\* for client := range h.clients
BroadcastAll(h, cs) ==
    IF cs = {} THEN h
    ELSE LET c == CHOOSE x \in cs : TRUE
         IN  BroadcastAll(BroadcastTo(h, c), cs \ {c})

\* Run, case message := <-h.broadcast
RunBroadcast ==
    /\ hub.clients # {}
    /\ hub' = BroadcastAll(hub, hub.clients)
    /\ HubFrame

\* readPump: ReadMessage returns a message of the type ping
ReadPing(c) ==
    /\ hub.conns[c].readPump = "read"
    /\ hub' = [hub EXCEPT !.conns[c].readPump = "pong"]
    /\ HubFrame

\* handleMessage: c.send <- pong; the send blocks while the buffer is full
\* and panics on the closed channel
handleMessage(c) ==
    /\ hub.conns[c].readPump = "pong"
    /\ hub.conns[c].closed \/ hub.conns[c].send < SendBuffer
    /\ hub' = IF hub.conns[c].closed
              THEN [hub EXCEPT !.conns[c].sentOnClosed = TRUE,
                               !.conns[c].readPump = "panic"]
              ELSE [hub EXCEPT !.conns[c].send = @ + 1,
                               !.conns[c].readPump = "read"]
    /\ HubFrame

\* readPump: ReadMessage returns an error and the loop breaks
ReadError(c) ==
    /\ hub.conns[c].readPump = "read"
    /\ hub' = [hub EXCEPT !.conns[c].readPump = "unregister"]
    /\ HubFrame

\* writePump: message, ok := <-c.send
writePump(c) ==
    /\ hub.conns[c].writePump = "run"
    /\ hub.conns[c].send > 0 \/ hub.conns[c].closed
    /\ hub' = IF hub.conns[c].send > 0
              THEN [hub EXCEPT !.conns[c].send = @ - 1]
              ELSE [hub EXCEPT !.conns[c].writePump = "done"]
    /\ HubFrame

NextHub ==
    \/ \E c \in WsClients : ServeWS(c)
    \/ \E c \in WsClients : RunUnregister(c)
    \/ RunBroadcast
    \/ \E c \in WsClients : ReadPing(c)
    \/ \E c \in WsClients : handleMessage(c)
    \/ \E c \in WsClients : ReadError(c)
    \/ \E c \in WsClients : writePump(c)

SpecHub == Init /\ [][NextHub]_vars

\* C37: the send channel of a client is closed at most once and no goroutine
\* sends on it after it was closed.
C37_CloseOnceNoSendAfter ==
    \A c \in WsClients :
        /\ hub.conns[c].closes <= 1
        /\ ~hub.conns[c].sentOnClosed


(***************************************************************************)
(* quota.QuotaManager (specification SpecQuota).  CheckQuota holds the     *)
(* read lock and UpdateUsage the write lock of qm.mu: each is one step,    *)
(* and a request is a CheckQuota followed, when allowed, by UpdateUsage.   *)
(***************************************************************************)
QuotaFrame == UNCHANGED <<coreVars, iam, tenants, configs, repl, backup, hub, pool>>

\* getCurrentUsage returns 0
getCurrentUsage == 0

SetQuota(limit, enforce) ==
    /\ ~quota.set
    /\ quota' = [quota EXCEPT !.set = TRUE, !.Limit = limit, !.Enforce = enforce,
                              !.Used = getCurrentUsage]
    /\ QuotaFrame

\* the first result of CheckQuota
CheckQuotaAllowed(q, size) ==
    IF ~q.set THEN TRUE
    ELSE ~(q.Enforce /\ q.Used + size > q.Limit)

CheckQuota(w, size) ==
    /\ quota.set
    /\ quota.writers[w] = 0
    /\ quota' = IF CheckQuotaAllowed(quota, size)
                THEN [quota EXCEPT !.writers[w] = size]
                ELSE quota
    /\ QuotaFrame

UpdateUsage(w) ==
    /\ quota.writers[w] > 0
    /\ quota' = [quota EXCEPT !.Used = IF quota.set THEN @ + quota.writers[w] ELSE @,
                              !.writers[w] = 0]
    /\ QuotaFrame

ResetUsage ==
    /\ quota.set
    /\ quota.Used > 0
    /\ quota' = [quota EXCEPT !.Used = 0]
    /\ QuotaFrame

NextQuota ==
    \/ \E limit \in QuotaLimits : SetQuota(limit, TRUE)
    \/ \E w \in Writers, size \in WriteSizes : CheckQuota(w, size)
    \/ \E w \in Writers : UpdateUsage(w)
    \/ ResetUsage

SpecQuota == Init /\ [][NextQuota]_vars

\* C38: with an enforced quota, Used never exceeds Limit when every
\* UpdateUsage(+size) follows a CheckQuota(size) that allowed it.
C38_UsedWithinLimit ==
    (quota.set /\ quota.Enforce) => quota.Used <= quota.Limit


(***************************************************************************)
(* storage.PooledBackend (specification SpecPool).  Get and Put take p.mu  *)
(* only around the statistics: the channel operation and each locked       *)
(* section are separate steps of the calling goroutine.                    *)
(***************************************************************************)
PoolFrame == UNCHANGED <<coreVars, iam, tenants, configs, repl, backup, hub, quota>>

\* Get: p.stats.OpenConnections++
Get(u) ==
    /\ pool.users[u] = "idle"
    /\ pool.stats.OpenConnections < MaxGets
    /\ pool' = [pool EXCEPT !.stats.OpenConnections = @ + 1, !.users[u] = "get"]
    /\ PoolFrame

\* Get: conn := <-p.pool, in the outer or the inner select
GetReceive(u) ==
    /\ pool.users[u] = "get"
    /\ pool.pool > 0
    /\ pool' = [pool EXCEPT !.pool = @ - 1, !.users[u] = "received"]
    /\ PoolFrame

\* Get: IdleConnections--, InUseConnections++ and the return of the connection
GetReturn(u) ==
    /\ pool.users[u] = "received"
    /\ pool' = [pool EXCEPT !.stats.IdleConnections = @ - 1,
                            !.stats.InUseConnections = @ + 1,
                            !.users[u] = "holding"]
    /\ PoolFrame

\* Get: case <-ctx.Done() of the inner select, the channel being empty
GetCancelled(u) ==
    /\ pool.users[u] = "get"
    /\ pool.pool = 0
    /\ pool' = [pool EXCEPT !.stats.WaitCount = @ + 1, !.users[u] = "idle"]
    /\ PoolFrame

\* Put: InUseConnections--, IdleConnections++
Put(u) ==
    /\ pool.users[u] = "holding"
    /\ pool' = [pool EXCEPT !.stats.InUseConnections = @ - 1,
                            !.stats.IdleConnections = @ + 1,
                            !.users[u] = "put"]
    /\ PoolFrame

\* Put: select { case p.pool <- conn: default: IdleConnections-- }
PutSend(u) ==
    /\ pool.users[u] = "put"
    /\ pool' = IF pool.pool < MaxIdleConns
               THEN [pool EXCEPT !.pool = @ + 1, !.users[u] = "idle"]
               ELSE [pool EXCEPT !.stats.IdleConnections = @ - 1, !.users[u] = "idle"]
    /\ PoolFrame

NextPool ==
    \/ \E u \in PoolUsers : Get(u)
    \/ \E u \in PoolUsers : GetReceive(u)
    \/ \E u \in PoolUsers : GetReturn(u)
    \/ \E u \in PoolUsers : GetCancelled(u)
    \/ \E u \in PoolUsers : Put(u)
    \/ \E u \in PoolUsers : PutSend(u)

SpecPool == Init /\ [][NextPool]_vars

\* no goroutine is inside Get or Put
PoolQuiet == \A u \in PoolUsers : pool.users[u] \in {"idle", "holding"}

\* C40: between the calls, IdleConnections is the number of connections in
\* the pool channel, InUseConnections the number handed out by Get and not
\* returned by Put, and neither is negative.
C40_StatsMatchPool ==
    PoolQuiet =>
        /\ pool.stats.IdleConnections = pool.pool
        /\ pool.stats.InUseConnections
             = Cardinality({ u \in PoolUsers : pool.users[u] = "holding" })
        /\ pool.stats.IdleConnections >= 0
        /\ pool.stats.InUseConnections >= 0

====
